---------------------------- MODULE Spec2Model ----------------------------
(***************************************************************************)
(* SuiSage multi-model orchestration core.                                 *)
(*                                                                         *)
(*   AIService            src/unnamed/part_004  (services/aiService.ts)    *)
(*   TrainingDataService  src/services/trainingDataService.ts              *)
(*   ChatScreen           src/app/(tabs)/chat.tsx                          *)
(*                                                                         *)
(* Text is a sequence of string chunks: a template literal is the          *)
(* concatenation of its fixed chunks and its interpolated values, and      *)
(* "contains" is sub-sequence search.  Wall-clock values (Date.now()) are  *)
(* not part of the state; the message ids keep their prefix only, and a    *)
(* chain's totalProcessingTime, a difference of two clock readings, is an  *)
(* input in 0..MaxElapsed.                                                 *)
(***************************************************************************)
EXTENDS Integers, Sequences, FiniteSets, TLC

\* ------------------------------------------------------------------ bounds

\* largest clock difference a chain run can observe
MaxElapsed == 1

\* ------------------------------------------------- registry and catalogue

Models == {"openai", "gemini"}

\* the provider list of getAvailableProviders, in its order
ProviderOrder == <<"openai", "gemini">>

AI_MODELS ==
  [m \in Models |->
     IF m = "openai"
       THEN [id |-> "openai", name |-> "OpenAI GPT", enabled |-> TRUE]
       ELSE [id |-> "gemini", name |-> "Google Gemini", enabled |-> TRUE]]

CHAIN_CONFIGS ==
  << [models |-> <<"openai", "gemini">>, name |-> "OpenAI -> Gemini"],
     [models |-> <<"gemini", "openai">>, name |-> "Gemini -> OpenAI"] >>

ChainIdx == 1 .. Len(CHAIN_CONFIGS)

\* `chain_${index}`, index being the zero-based array position
ChainId(c) == "chain_" \o ToString(c - 1)

ChatModes == {"parallel", "chain", "universal"}

\* ------------------------------------------------------------------- text

Contains(hay, needle) ==
  \E k \in 0 .. (Len(hay) - Len(needle)) :
     SubSeq(hay, k + 1, k + Len(needle)) = needle

\* the questions a user submits
Questions == { <<"is my wallet secure?">>, <<"explain", "staking risks">> }

\* the answer texts a backend produces in its answer field
Answers == { <<"Enable 2FA.">>, <<"rotate", "keys">> }

\* What one HTTP round trip can come to:
\*   neterr   fetch rejects
\*   httperr  a non-success status
\*   badjson  success status, body is not JSON
\*   empty    success status, the answer field is absent or empty
\*   ok       success status with answer text
FetchOutcomes ==
  { [kind |-> k, text |-> <<>>] : k \in {"neterr", "httperr", "badjson", "empty"} }
    \cup { [kind |-> "ok", text |-> t] : t \in Answers }

Returned(t) == [ok |-> TRUE, text |-> t]
Thrown(msg) == [ok |-> FALSE, text |-> msg]

\* ---------------------------------------------------------------- backends

askOpenAI(o) ==
  CASE o.kind = "neterr"  -> Thrown(<<"Network request failed">>)
    [] o.kind = "httperr" -> Thrown(<<"OpenAI API error: ", "status">>)
    [] o.kind = "badjson" -> Thrown(<<"JSON Parse error">>)
    [] o.kind = "empty"   -> Returned(<<"No response generated">>)
    [] OTHER              -> IF o.text = <<>>
                               THEN Returned(<<"No response generated">>)
                               ELSE Returned(o.text)

askGemini(o) ==
  CASE o.kind = "neterr"  -> Thrown(<<"Network request failed">>)
    [] o.kind = "httperr" -> Thrown(<<"Gemini API error: ", "status", " - ", "body">>)
    [] o.kind = "badjson" ->
         Thrown(<<"Failed to parse Gemini response: ", "JSON Parse error">>)
    [] o.kind = "empty"   -> Thrown(<<"No response generated from Gemini">>)
    [] OTHER              -> IF o.text = <<>>
                               THEN Thrown(<<"No response generated from Gemini">>)
                               ELSE Returned(o.text)

Ask(m, o) == IF m = "openai" THEN askOpenAI(o) ELSE askGemini(o)


\* ------------------------------------------------------------------- state

VARIABLES
  apiKey,     \* AIService: which credential the constructor found
  pc,         \* processAIRequest: "idle", "pending" or "settled"
  req,        \* its arguments
  par,        \* askMultipleAIs: the promise of each provider
  chain,      \* executeAllChains: the promise and the locals of each chain
  hist,       \* per chain, the round-trip outcomes it has consumed
  fetches,    \* per backend, the HTTP requests issued for this request
  result      \* what processAIRequest settled with

engineVars == <<apiKey, pc, req, par, chain, hist, fetches, result>>

\* Record<string, ModelResponse>: a function on the keys present
EmptyMap == [k \in {} |-> [modelId |-> "", content |-> <<>>]]

MapPut(f, k, v) == [x \in (DOMAIN f) \cup {k} |-> IF x = k THEN v ELSE f[x]]

\* optional enabledProviders argument: `given` is FALSE for undefined
ProviderFilters ==
  { [given |-> TRUE, flags |-> f] : f \in [Models -> BOOLEAN] }
    \cup { [given |-> FALSE, flags |-> [m \in Models |-> FALSE]] }

NoMsg == [id |-> "", text |-> <<>>, sender |-> "", sessionId |-> ""]

NoChained ==
  [finalResponse |-> NoMsg,
   chainData |-> [steps |-> <<>>, finalModelId |-> "", totalProcessingTime |-> 0],
   responses |-> EmptyMap]

\* ------------------------------------------------------- parallel execution

getAvailableProviders ==
  [m \in Models |-> [id |-> m, name |-> AI_MODELS[m].name, enabled |-> apiKey[m]]]

\* the filter callback of askMultipleAIs
ProviderIncluded(provider, enabledProviders) ==
  IF enabledProviders.given
    THEN provider.enabled /\ enabledProviders.flags[provider.id]
    ELSE provider.enabled

\* ProviderSettled without its catch: a failed call rejects the promise
ProviderSettledUncaught(provider, r) ==
  IF r.ok
    THEN [st |-> "fulfilled",
          msg |-> [id |-> provider.id \o "-", text |-> r.text,
                   sender |-> provider.id, sessionId |-> ""]]
    ELSE [st |-> "rejected", msg |-> NoMsg]

\* the map callback of askMultipleAIs once its backend call has settled with r;
\* the promise it leaves behind
ProviderSettled(provider, r) ==
  IF r.ok
    THEN [st |-> "fulfilled",
          msg |-> [id |-> provider.id \o "-", text |-> r.text,
                   sender |-> provider.id, sessionId |-> ""]]
    ELSE [st |-> "fulfilled",
          msg |-> [id |-> provider.id \o "-error-",
                   text |-> <<provider.name, " encountered an error: ">> \o r.text,
                   sender |-> provider.id, sessionId |-> ""]]

\* the map callback up to its first await: the backend call is issued when the
\* credential is there, else the "not configured" text is the answer at once
ProviderStarted(provider) ==
  IF apiKey[provider.id]
    THEN [st |-> "inflight", msg |-> NoMsg]
    ELSE ProviderSettled(provider,
           Returned(<<provider.name, " is not configured. Please add the API key.">>))

\* results.forEach of askMultipleAIs: the fulfilled values in promise order
askMultipleAIsResult(p) ==
  LET F[k \in 0 .. Len(ProviderOrder)] ==
        IF k = 0 THEN <<>>
        ELSE IF p[ProviderOrder[k]].st = "fulfilled"
               THEN Append(F[k - 1], p[ProviderOrder[k]].msg)
               ELSE F[k - 1]
  IN F[Len(ProviderOrder)]


\* ---------------------------------------------------------- chain execution

\* createChainPrompt without the previous analysis in its template
createChainPromptNoPrevious(originalQuestion, previousResponse, currentModelId, stepNumber) ==
  <<"Original User Question: \"">> \o originalQuestion
    \o <<"\"\n\nAs ", currentModelId, ", please provide a comprehensive response.">>

createChainPrompt(originalQuestion, previousResponse, currentModelId, stepNumber) ==
  LET modelName == IF currentModelId \in DOMAIN AI_MODELS
                     THEN AI_MODELS[currentModelId].name
                     ELSE currentModelId
  IN <<"Previous AI Analysis:\n\"">> \o previousResponse
       \o <<"\"\n\nOriginal User Question: \"">> \o originalQuestion
       \o <<"\"\n\nAs ", modelName,
            ", please:\n1. Review the previous analysis ... enhances the overall analysis.">>

\* the prompt executeAIChain sends at step i (zero-based)
ChainStepPrompt(question, lastResponse, modelId, i) ==
  IF i # 0 /\ lastResponse # <<>>
    THEN createChainPrompt(question, lastResponse, modelId, i + 1)
    ELSE question

\* the Error the catch of the step loop throws on
StepFailure(i, modelId, msg) ==
  <<"Chain failed at step ", ToString(i + 1), " (", modelId, "): ">> \o msg

\* A chain's promise and the locals of its executeAIChain call.
\*   st  "idle"      not started
\*       "inflight"  awaiting the backend call of step i
\*       "returned"  executeAIChain returned res
\*       "threw"     executeAIChain threw Error(err)
ChainIdle ==
  [st |-> "idle", i |-> 0, prompt |-> <<>>, steps |-> <<>>, responses |-> EmptyMap,
   lastResponse |-> <<>>, err |-> <<>>, res |-> NoChained]

\* the step loop of executeAIChain from the top of iteration i to its await
EnterStep(config, question, cs, i) ==
  LET modelId == config.models[i + 1]
      prompt  == ChainStepPrompt(question, cs.lastResponse, modelId, i)
  IN IF apiKey[modelId]
       THEN [cs EXCEPT !.st = "inflight", !.i = i, !.prompt = prompt]
       ELSE [cs EXCEPT !.st = "threw", !.i = i, !.prompt = prompt,
                       !.err = StepFailure(i, modelId,
                                 <<"Model ", modelId, " not configured or not available">>)]

\* the step loop of executeAIChain from the await of step cs.i, whose backend
\* call settled with r, to the next await, the return or the throw
AfterStep(config, question, cs, r, elapsed) ==
  LET i       == cs.i
      modelId == config.models[i + 1]
      modelResponse == [modelId |-> modelId, content |-> r.text]
      chainStep ==
        [stepIndex |-> i, modelId |-> modelId,
         prompt |-> IF i = 0 THEN question ELSE cs.prompt,
         response |-> modelResponse,
         enhancedPrompt |-> IF i = 0 THEN <<>> ELSE cs.prompt]
      after == [cs EXCEPT !.steps = Append(cs.steps, chainStep),
                          !.responses = MapPut(cs.responses, modelId, modelResponse),
                          !.lastResponse = r.text]
      finalModelId == config.models[Len(config.models)]
  IN IF ~r.ok
       THEN [cs EXCEPT !.st = "threw", !.err = StepFailure(i, modelId, r.text)]
     ELSE IF i + 1 < Len(config.models)
       THEN EnterStep(config, question, after, i + 1)
     ELSE [after EXCEPT
             !.st = "returned",
             !.res = [finalResponse |->
                        [id |-> "chain-", text |-> after.lastResponse,
                         sender |-> finalModelId, sessionId |-> ""],
                      chainData |->
                        [steps |-> after.steps, finalModelId |-> finalModelId,
                         totalProcessingTime |-> elapsed],
                      responses |-> after.responses]]

\* ChainSettled returning what the chain had done before it threw
ChainSettledPartial(config, cs) ==
  IF cs.st = "threw"
    THEN [st |-> "fulfilled",
          value |->
            [finalResponse |->
               [id |-> "chain-error-",
                text |-> <<"Chain \"", config.name, "\" failed: ">> \o cs.err,
                sender |-> config.models[Len(config.models)], sessionId |-> ""],
             chainData |-> [steps |-> cs.steps,
                            finalModelId |-> config.models[Len(config.models)],
                            totalProcessingTime |-> 0],
             responses |-> cs.responses]]
    ELSE [st |-> "fulfilled", value |-> cs.res]

\* ChainSettled without its catch: a chain that threw rejects the promise
ChainSettledUncaught(config, cs) ==
  IF cs.st = "threw"
    THEN [st |-> "rejected", value |-> NoChained]
    ELSE [st |-> "fulfilled", value |-> cs.res]

\* the map callback of executeAllChains around a finished executeAIChain:
\* the promise it leaves behind
ChainSettled(config, cs) ==
  IF cs.st = "threw"
    THEN [st |-> "fulfilled",
          value |->
            [finalResponse |->
               [id |-> "chain-error-",
                text |-> <<"Chain \"", config.name, "\" failed: ">> \o cs.err,
                sender |-> config.models[Len(config.models)], sessionId |-> ""],
             chainData |-> [steps |-> <<>>,
                            finalModelId |-> config.models[Len(config.models)],
                            totalProcessingTime |-> 0],
             responses |-> EmptyMap]]
    ELSE [st |-> "fulfilled", value |-> cs.res]

ChainFinished(cs) == cs.st \in {"returned", "threw"}

\* results.forEach of executeAllChains: the fulfilled values in catalogue
\* order, each tagged with `chain_${index}`
executeAllChainsResult(ch) ==
  LET F[k \in 0 .. Len(CHAIN_CONFIGS)] ==
        IF k = 0 THEN <<>>
        ELSE LET p == ChainSettled(CHAIN_CONFIGS[k], ch[k])
             IN IF p.st = "fulfilled"
                  THEN Append(F[k - 1],
                         [p.value EXCEPT !.finalResponse.sessionId = ChainId(k)])
                  ELSE F[k - 1]
  IN F[Len(CHAIN_CONFIGS)]

\* ------------------------------------------------------- processAIRequest

NoResult ==
  [status |-> "none", kind |-> "none", parallelResponses |-> <<>>,
   chainResponses |-> <<>>]

\* processAIRequest awaiting the executeAIChain promises themselves with
\* Promise.all: one chain that threw rejects the whole request
processAIRequestFailFast(chatMode, p, ch) ==
  IF chatMode \in {"chain", "universal"} /\ \E c \in DOMAIN ch : ch[c].st = "threw"
    THEN [status |-> "rejected", kind |-> "none", parallelResponses |-> <<>>,
          chainResponses |-> <<>>]
    ELSE [status |-> "fulfilled",
          kind |-> IF chatMode = "chain" THEN "chains"
                   ELSE IF chatMode = "universal" THEN "universal" ELSE "messages",
          parallelResponses |-> IF chatMode = "chain" THEN <<>>
                                ELSE askMultipleAIsResult(p),
          chainResponses |-> IF chatMode \in {"chain", "universal"}
                               THEN executeAllChainsResult(ch) ELSE <<>>]

\* what processAIRequest settles with once the promises it awaits have settled
processAIRequest(chatMode, p, ch) ==
  CASE chatMode = "parallel" ->
         [status |-> "fulfilled", kind |-> "messages",
          parallelResponses |-> askMultipleAIsResult(p), chainResponses |-> <<>>]
    [] chatMode = "chain" ->
         [status |-> "fulfilled", kind |-> "chains",
          parallelResponses |-> <<>>, chainResponses |-> executeAllChainsResult(ch)]
    [] chatMode = "universal" ->
         [status |-> "fulfilled", kind |-> "universal",
          parallelResponses |-> askMultipleAIsResult(p),
          chainResponses |-> executeAllChainsResult(ch)]
    [] OTHER ->
         [status |-> "fulfilled", kind |-> "messages",
          parallelResponses |-> askMultipleAIsResult(p), chainResponses |-> <<>>]

RunsParallel(chatMode) == chatMode # "chain"
RunsChains(chatMode) == chatMode \in {"chain", "universal"}

\* Issued with executeAIChain sending every step of its chain at once, not
\* awaiting one before the next
IssuedAllSteps(m, p, ch) ==
  Cardinality({x \in DOMAIN p : x = m /\ p[x].st = "inflight"})
    + Cardinality({ <<c, k>> \in (DOMAIN ch) \X (1 .. 2) :
                      /\ ch[c].st = "inflight"
                      /\ k <= Len(CHAIN_CONFIGS[c].models)
                      /\ CHAIN_CONFIGS[c].models[k] = m })

\* the HTTP requests a set of promises has just issued to backend m
Issued(m, p, ch) ==
  Cardinality({x \in DOMAIN p : x = m /\ p[x].st = "inflight"})
    + Cardinality({c \in DOMAIN ch :
                     ch[c].st = "inflight" /\ CHAIN_CONFIGS[c].models[ch[c].i + 1] = m})

\* processAIRequest up to its await: every eligible provider's call and every
\* chain's first step are issued in the same turn
StartRequest(question, chatMode, enabledProviders) ==
  /\ pc = "idle"
  /\ LET p == [m \in Models |->
                 IF RunsParallel(chatMode)
                    /\ ProviderIncluded(getAvailableProviders[m], enabledProviders)
                   THEN ProviderStarted(getAvailableProviders[m])
                   ELSE [st |-> "excluded", msg |-> NoMsg]]
         ch == [c \in ChainIdx |->
                  IF RunsChains(chatMode)
                    THEN EnterStep(CHAIN_CONFIGS[c], question, ChainIdle, 0)
                    ELSE ChainIdle]
     IN /\ par' = p
        /\ chain' = ch
        /\ fetches' = [m \in Models |-> Issued(m, p, ch)]
  /\ req' = [question |-> question, chatMode |-> chatMode,
             enabledProviders |-> enabledProviders]
  /\ hist' = [c \in ChainIdx |-> <<>>]
  /\ result' = NoResult
  /\ pc' = "pending"
  /\ UNCHANGED apiKey

\* the backend call of provider m settles, its round trip having come to o
SettleProvider(m, o) ==
  /\ pc = "pending"
  /\ par[m].st = "inflight"
  /\ par' = [par EXCEPT ![m] = ProviderSettled(getAvailableProviders[m], Ask(m, o))]
  /\ UNCHANGED <<apiKey, pc, req, chain, hist, fetches, result>>

\* SettleChainStep with fail-fast chains: a chain that throws takes the chains
\* still in flight down with it
SettleChainStepFailFast(c, o, elapsed) ==
  /\ pc = "pending"
  /\ chain[c].st = "inflight"
  /\ LET m    == CHAIN_CONFIGS[c].models[chain[c].i + 1]
         next == AfterStep(CHAIN_CONFIGS[c], req.question, chain[c], Ask(m, o), elapsed)
     IN /\ (next.st # "returned" => elapsed = 0)
        /\ chain' = [d \in ChainIdx |->
                       IF d = c THEN next
                       ELSE IF next.st = "threw" /\ chain[d].st = "inflight"
                         THEN [chain[d] EXCEPT !.st = "threw", !.err = next.err]
                         ELSE chain[d]]
        /\ hist' = [hist EXCEPT ![c] = Append(@, o)]
        /\ fetches' = IF next.st = "inflight"
                        THEN [fetches EXCEPT
                                ![CHAIN_CONFIGS[c].models[next.i + 1]] = @ + 1]
                        ELSE fetches
  /\ UNCHANGED <<apiKey, pc, req, par, result>>

\* the backend call of chain c's current step settles, its round trip having
\* come to o; elapsed is Date.now() - startTime should the chain return now
SettleChainStep(c, o, elapsed) ==
  /\ pc = "pending"
  /\ chain[c].st = "inflight"
  /\ LET m    == CHAIN_CONFIGS[c].models[chain[c].i + 1]
         next == AfterStep(CHAIN_CONFIGS[c], req.question, chain[c], Ask(m, o), elapsed)
     IN /\ (next.st # "returned" => elapsed = 0)
        /\ chain' = [chain EXCEPT ![c] = next]
        /\ hist' = [hist EXCEPT ![c] = Append(@, o)]
        /\ fetches' = IF next.st = "inflight"
                        THEN [fetches EXCEPT
                                ![CHAIN_CONFIGS[c].models[next.i + 1]] = @ + 1]
                        ELSE fetches
  /\ UNCHANGED <<apiKey, pc, req, par, result>>

AllSettled ==
  /\ \A m \in Models : par[m].st # "inflight"
  /\ \A c \in ChainIdx : chain[c].st # "inflight"

\* the awaits of processAIRequest are over: it settles
SettleRequest ==
  /\ pc = "pending"
  /\ AllSettled
  /\ result' = processAIRequest(req.chatMode, par, chain)
  /\ pc' = "settled"
  /\ UNCHANGED <<apiKey, req, par, chain, hist, fetches>>

\* no call in progress: the locals of the last call are gone
EngineIdle ==
  /\ pc = "idle"
  /\ req = [question |-> <<>>, chatMode |-> "parallel",
            enabledProviders |-> [given |-> FALSE, flags |-> [m \in Models |-> FALSE]]]
  /\ par = [m \in Models |-> [st |-> "excluded", msg |-> NoMsg]]
  /\ chain = [c \in ChainIdx |-> ChainIdle]
  /\ hist = [c \in ChainIdx |-> <<>>]
  /\ fetches = [m \in Models |-> 0]
  /\ result = NoResult

EngineInit ==
  /\ apiKey \in [Models -> BOOLEAN]
  /\ EngineIdle

\* the caller has taken the result of processAIRequest
ReturnRequest ==
  /\ pc = "settled"
  /\ pc' = "idle"
  /\ req' = [question |-> <<>>, chatMode |-> "parallel",
             enabledProviders |-> [given |-> FALSE, flags |-> [m \in Models |-> FALSE]]]
  /\ par' = [m \in Models |-> [st |-> "excluded", msg |-> NoMsg]]
  /\ chain' = [c \in ChainIdx |-> ChainIdle]
  /\ hist' = [c \in ChainIdx |-> <<>>]
  /\ fetches' = [m \in Models |-> 0]
  /\ result' = NoResult
  /\ UNCHANGED apiKey


\* ======================================================= TrainingDataService
\*
\* A nullable or optional value is a sequence of at most one element: <<>> is
\* null or undefined, <<v>> is v.  A stored entry is what JSON.parse gives back
\* of what JSON.stringify wrote: a function on the property names that were
\* written, a property whose value is undefined not being among them.

\* the most entries the store retains.  The service keeps 1000
\* (trainingDataService.ts line 226); the model scales the cap down.
MAX_ENTRIES == 2

\* the sessions created in one run
MaxSessions == 3

VARIABLES
  storage,     \* AsyncStorage: the value under STORAGE_KEY, <<>> when absent
  saves,       \* the saveComparisonData calls in progress
  nextId,      \* the id of the next session created
  appended,    \* the entries whose write succeeded since the last clear, in order
  overlapped,  \* a saveComparisonData call has been in progress at once with
               \* another one, or with a clearAllData call
  readFailed,  \* the read of a saveComparisonData call has failed
  exported,    \* what the last getTrainingDataForExport call returned
  stats,       \* what the last getExtensibleStats call returned
  prevStats    \* what the call before it returned, the store unchanged since

storeVars ==
  <<storage, saves, nextId, appended, overlapped, readFailed, exported, stats, prevStats>>

OptionalFields == {"chainConfig", "chainData", "chainResponses"}

\* JSON.stringify then JSON.parse of an object: undefined properties are gone
JsonObject(r) ==
  [f \in {g \in DOMAIN r : ~(g \in OptionalFields /\ r[g] = <<>>)} |-> r[f]]

JsonArray(list) == [k \in 1 .. Len(list) |-> JsonObject(list[k])]

\* reading property f of a parsed object
Field(e, f) == IF f \in DOMAIN e THEN e[f] ELSE <<>>

\* a wallet snapshot as the store sees it
SomeWallet ==
  [address |-> "0xabc", balance |-> 5,
   assets |-> << [symbol |-> "SUI"], [symbol |-> "USDC"] >>,
   transactions |-> << [digest |-> "d1"] >>]

ModelResponseOf(m) == [modelId |-> m, content |-> <<"answer of ", m>>]

ResponsesOf(ms) == [m \in ms |-> ModelResponseOf(m)]

ChainResponsesAll ==
  [id \in {ChainId(c) : c \in ChainIdx} |->
     LET c == CHOOSE d \in ChainIdx : ChainId(d) = id
     IN [chainConfig |-> CHAIN_CONFIGS[c], responses |-> EmptyMap,
         chainData |-> NoChained.chainData]]

\* the comparison sessions handed to saveComparisonData, less their id
SessionShapes ==
  { [question |-> <<"is my wallet secure?">>, walletData |-> <<SomeWallet>>,
     chatMode |-> "parallel", chainConfig |-> <<>>,
     responses |-> ResponsesOf({"openai", "gemini"}), chainData |-> <<>>,
     chainResponses |-> <<>>, selectedOption |-> <<"openai">>],
    [question |-> <<"explain", "staking risks">>, walletData |-> <<>>,
     chatMode |-> "universal", chainConfig |-> <<CHAIN_CONFIGS[2]>>,
     responses |-> ResponsesOf({"openai", "gemini"}), chainData |-> <<>>,
     chainResponses |-> <<ChainResponsesAll>>, selectedOption |-> <<"chain_1">>],
    [question |-> <<"explain", "staking risks">>, walletData |-> <<>>,
     chatMode |-> "parallel", chainConfig |-> <<>>,
     responses |-> ResponsesOf({"gemini"}), chainData |-> <<>>,
     chainResponses |-> <<>>, selectedOption |-> <<>>] }

\* `session-${Date.now()}` and Date.now(): the n-th session created
SessionOf(shape, n) ==
  [id |-> n, timestamp |-> n, question |-> shape.question,
   walletData |-> shape.walletData, chatMode |-> shape.chatMode,
   chainConfig |-> shape.chainConfig, responses |-> shape.responses,
   chainData |-> shape.chainData, chainResponses |-> shape.chainResponses,
   selectedOption |-> shape.selectedOption]

\* the trainingEntry object literal of saveComparisonData
TrainingEntry(session) ==
  [id |-> session.id, timestamp |-> session.timestamp,
   question |-> session.question, walletData |-> session.walletData,
   chatMode |-> session.chatMode, chainConfig |-> session.chainConfig,
   responses |-> session.responses, chainData |-> session.chainData,
   selectedOption |-> session.selectedOption]

\* entry.selectedOption !== null
HasSelection(entry) ==
  ~("selectedOption" \in DOMAIN entry /\ entry.selectedOption = <<>>)

\* the list back to front
Reverse(list) == [k \in 1 .. Len(list) |-> list[Len(list) + 1 - k]]

\* Array.prototype.slice(0, n)
Slice0(list, n) == SubSeq(list, 1, IF Len(list) < n THEN Len(list) ELSE n)

\* [trainingEntry, ...existingData].slice(0, this.MAX_ENTRIES)
UpdatedData(entry, existingData) == Slice0(<<entry>> \o existingData, MAX_ENTRIES)

\* getAllTrainingData: the parsed list, [] when the key is absent, [] when
\* getItem or JSON.parse fails
getAllTrainingData(readOk) == IF readOk THEN storage ELSE <<>>

SaveIdle == [pc |-> "idle", session |-> <<>>, entry |-> <<>>, updatedData |-> <<>>]

SaveSlots == 1 .. 2

\* saveComparisonData(session) up to its await of getAllTrainingData
saveComparisonData(slot, session) ==
  /\ saves[slot].pc = "idle"
  /\ saves' = [saves EXCEPT ![slot] =
                 [pc |-> "reading", session |-> <<session>>,
                  entry |-> <<TrainingEntry(session)>>, updatedData |-> <<>>]]
  /\ overlapped' = (overlapped \/ \E other \in SaveSlots \ {slot} : saves[other].pc # "idle")
  /\ UNCHANGED <<storage, appended, readFailed, exported, stats, prevStats>>

\* saveComparisonData is called with a new session: getItem is issued
SaveBegin(slot, shape) ==
  /\ nextId <= MaxSessions
  /\ saveComparisonData(slot, SessionOf(shape, nextId))
  /\ nextId' = nextId + 1

\* the read settles: the new list is built and setItem is issued
SaveRead(slot) ==
  /\ saves[slot].pc = "reading"
  /\ \E readOk \in BOOLEAN :
       /\ saves' = [saves EXCEPT ![slot] =
                      [@ EXCEPT !.pc = "writing",
                                !.updatedData =
                                   UpdatedData(saves[slot].entry[1], getAllTrainingData(readOk))]]
       /\ readFailed' = (readFailed \/ ~readOk)
  /\ UNCHANGED <<storage, nextId, appended, overlapped, exported, stats, prevStats>>

\* SaveWrite without the catch of saveComparisonData: the failure of setItem
\* is thrown to the caller
SaveWriteUncaught(slot) ==
  /\ saves[slot].pc = "writing"
  /\ \E writeOk \in BOOLEAN :
       IF writeOk
         THEN /\ storage' = JsonArray(saves[slot].updatedData)
              /\ appended' = Append(appended, JsonObject(saves[slot].entry[1]))
              /\ exported' = <<>>
              /\ stats' = <<>>
              /\ prevStats' = <<>>
              /\ saves' = [saves EXCEPT ![slot] = SaveIdle]
         ELSE /\ saves' = [saves EXCEPT ![slot] = [SaveIdle EXCEPT !.pc = "threw"]]
              /\ UNCHANGED <<storage, appended, exported, stats, prevStats>>
  /\ UNCHANGED <<nextId, overlapped, readFailed>>

\* setItem settles: the list is stored, or the failure is logged and dropped
SaveWrite(slot) ==
  /\ saves[slot].pc = "writing"
  /\ \E writeOk \in BOOLEAN :
       IF writeOk
         THEN /\ storage' = JsonArray(saves[slot].updatedData)
              /\ appended' = Append(appended, JsonObject(saves[slot].entry[1]))
              /\ exported' = <<>>
              /\ stats' = <<>>
              /\ prevStats' = <<>>
         ELSE UNCHANGED <<storage, appended, exported, stats, prevStats>>
  /\ saves' = [saves EXCEPT ![slot] = SaveIdle]
  /\ UNCHANGED <<nextId, overlapped, readFailed>>

\* clearAllData: removeItem, its failure logged and dropped
clearAllData ==
  /\ \E removeOk \in BOOLEAN :
       IF removeOk
         THEN /\ storage' = <<>>
              /\ appended' = <<>>
              /\ exported' = <<>>
              /\ stats' = <<>>
              /\ prevStats' = <<>>
         ELSE UNCHANGED <<storage, appended, exported, stats, prevStats>>
  /\ overlapped' = (overlapped \/ \E slot \in SaveSlots : saves[slot].pc # "idle")
  /\ UNCHANGED <<saves, nextId, readFailed>>

\* getTrainingDataForExport without its filter on selectedOption
ExportRecordsUnfiltered(data) ==
  [k \in 1 .. Len(data) |->
     LET entry == data[k]
     IN JsonObject(
          [prompt |-> Field(entry, "question"),
           context |-> IF Field(entry, "walletData") # <<>>
                         THEN << [balance |-> entry.walletData[1].balance,
                                  assets |-> Len(entry.walletData[1].assets),
                                  transactions |-> Len(entry.walletData[1].transactions)] >>
                         ELSE <<>>,
           chatMode |-> Field(entry, "chatMode"),
           chainConfig |-> Field(entry, "chainConfig"),
           responses |-> Field(entry, "responses"),
           chainData |-> Field(entry, "chainData"),
           selected |-> Field(entry, "selectedOption"),
           timestamp |-> Field(entry, "timestamp")])]

\* the records getTrainingDataForExport serialises
ExportRecords(data) ==
  LET selected == SelectSeq(data, HasSelection)
  IN [k \in 1 .. Len(selected) |->
        LET entry == selected[k]
        IN JsonObject(
             [prompt |-> Field(entry, "question"),
              context |-> IF Field(entry, "walletData") # <<>>
                            THEN << [balance |-> entry.walletData[1].balance,
                                     assets |-> Len(entry.walletData[1].assets),
                                     transactions |-> Len(entry.walletData[1].transactions)] >>
                            ELSE <<>>,
              chatMode |-> Field(entry, "chatMode"),
              chainConfig |-> Field(entry, "chainConfig"),
              responses |-> Field(entry, "responses"),
              chainData |-> Field(entry, "chainData"),
              selected |-> Field(entry, "selectedOption"),
              timestamp |-> Field(entry, "timestamp")])]

\* getTrainingDataForExport: read, filter, project
getTrainingDataForExport ==
  /\ \E readOk \in BOOLEAN :
       exported' = << [readOk |-> readOk,
                       records |-> ExportRecords(getAllTrainingData(readOk))] >>
  /\ UNCHANGED <<storage, saves, nextId, appended, overlapped, readFailed, stats, prevStats>>


Count(data, P(_)) == Cardinality({k \in 1 .. Len(data) : P(data[k])})

\* Array.prototype.join(',') of a chain's model list
JoinModels(models) ==
  LET F[k \in 0 .. Len(models)] ==
        IF k = 0 THEN <<>>
        ELSE IF k = 1 THEN <<models[1]>>
        ELSE F[k - 1] \o <<",", models[k]>>
  IN F[Len(models)]

\* an entry the aggregator's property accesses throw on: entry.responses is
\* undefined, so entry.responses[modelId] is a TypeError
StatsThrowsOn(entry) == ~("responses" \in DOMAIN entry)

\* the value getExtensibleStats returns from its catch
StatsOfCatch ==
  [totalSessions |-> 0, withSelections |-> 0, modelStats |-> <<>>, chainStats |-> <<>>,
   parallelSessions |-> 0, chainSessions |-> 0, universalSessions |-> 0]

\* the map over Object.keys(AI_MODELS)
ModelStatsOf(data) ==
  [k \in 1 .. Len(ProviderOrder) |->
     [modelId |-> ProviderOrder[k],
      totalSessions |->
        Count(data, LAMBDA entry : ProviderOrder[k] \in DOMAIN entry.responses),
      wins |->
        Count(data, LAMBDA entry :
                /\ HasSelection(entry)
                /\ Field(entry, "chatMode") \in {"parallel", "universal"}
                /\ Field(entry, "selectedOption") = <<ProviderOrder[k]>>)]]

\* the map over CHAIN_CONFIGS
ChainStatsOf(data) ==
  [c \in ChainIdx |->
     [chainConfig |-> CHAIN_CONFIGS[c],
      totalSessions |->
        Count(data, LAMBDA entry :
                \/ /\ Field(entry, "chainConfig") # <<>>
                   /\ JoinModels(entry.chainConfig[1].models)
                        = JoinModels(CHAIN_CONFIGS[c].models)
                \/ /\ Field(entry, "chainResponses") # <<>>
                   /\ ChainId(c) \in DOMAIN entry.chainResponses[1]),
      wins |->
        Count(data, LAMBDA entry :
                /\ HasSelection(entry)
                /\ Field(entry, "chatMode") \in {"chain", "universal"}
                /\ Field(entry, "selectedOption") = <<ChainId(c)>>)]]

\* getExtensibleStats keeping its win counters from one call to the next:
\* each call adds the wins it counts to those the call before returned
ExtensibleStatsCached(data) ==
  IF \E k \in 1 .. Len(data) : StatsThrowsOn(data[k])
    THEN StatsOfCatch
    ELSE
      [totalSessions |-> Len(data),
       withSelections |-> Count(data, HasSelection),
       modelStats |->
         [k \in 1 .. Len(ProviderOrder) |->
            [ModelStatsOf(data)[k] EXCEPT
               !.wins = @ + IF stats # <<>> /\ Len(stats[1].value.modelStats) >= k
                              THEN stats[1].value.modelStats[k].wins ELSE 0]],
       chainStats |-> ChainStatsOf(data),
       parallelSessions |-> Count(data, LAMBDA entry : Field(entry, "chatMode") = "parallel"),
       chainSessions |-> Count(data, LAMBDA entry : Field(entry, "chatMode") = "chain"),
       universalSessions |-> Count(data, LAMBDA entry : Field(entry, "chatMode") = "universal")]

\* the body of getExtensibleStats over the list it read
ExtensibleStats(data) ==
  IF \E k \in 1 .. Len(data) : StatsThrowsOn(data[k])
    THEN StatsOfCatch
    ELSE
      [totalSessions |-> Len(data),
       withSelections |-> Count(data, HasSelection),
       modelStats |-> ModelStatsOf(data),
       chainStats |-> ChainStatsOf(data),
       parallelSessions |-> Count(data, LAMBDA entry : Field(entry, "chatMode") = "parallel"),
       chainSessions |-> Count(data, LAMBDA entry : Field(entry, "chatMode") = "chain"),
       universalSessions |-> Count(data, LAMBDA entry : Field(entry, "chatMode") = "universal")]

\* getExtensibleStats: read, aggregate
getExtensibleStats ==
  /\ \E readOk \in BOOLEAN :
       stats' = << [readOk |-> readOk,
                    value |-> ExtensibleStats(getAllTrainingData(readOk))] >>
  /\ prevStats' = stats
  /\ UNCHANGED <<storage, saves, nextId, appended, overlapped, readFailed, exported>>

StoreInit ==
  /\ storage = <<>>
  /\ saves = [slot \in SaveSlots |-> SaveIdle]
  /\ nextId = 1
  /\ appended = <<>>
  /\ overlapped = FALSE
  /\ readFailed = FALSE
  /\ exported = <<>>
  /\ stats = <<>>
  /\ prevStats = <<>>

\* ============================================================== ChatScreen
\*
\* The chat screen and the settings it reads from WalletContext.  A message is
\* [id, text, sender, sessionId, isLoading]: id is the prefix that precedes
\* Date.now() in the source, sessionId is <<>> where the source leaves it out.

\* the requests handleSendMessageWithText makes of the AIService in one run
MaxSends == 1

\* the sends it turns down for want of a provider in one run
MaxRefusals == 1

VARIABLES
  aiProviderSettings,  \* WalletContext: the user's switch of each provider
  voiceSettings,       \* WalletContext: voice mode
  chatSettings,        \* WalletContext: chain mode and chain comparison
  messages,            \* ChatScreen: the transcript
  isLoading,           \* ChatScreen
  currentSession,      \* ChatScreen: <<>> or the one comparison session
  selectedResponses,   \* ChatScreen: the sender picked in each session
  send                 \* the locals of the handleSendMessageWithText call in progress

chatVars ==
  <<aiProviderSettings, voiceSettings, chatSettings, messages, isLoading,
    currentSession, selectedResponses, send>>

\* the store variables other than the clock
storeRest ==
  <<storage, saves, appended, overlapped, readFailed, exported, stats, prevStats>>

\* useState<{ [sessionId: string]: string }>({})
NoSelections == [sessionId \in {} |-> ""]

\* String.prototype.trim: the chunks " " at either end are white space
Trim(text) ==
  LET inked == {k \in 1 .. Len(text) : text[k] # " "}
  IN IF inked = {} THEN <<>>
     ELSE SubSeq(text, CHOOSE k \in inked : \A j \in inked : k <= j,
                       CHOOSE k \in inked : \A j \in inked : k >= j)

\* what the user sends
ChatInputs == { <<" ">>, <<" ", "is my wallet secure?">> }

\* the round trips and the chain durations the chat screen is run against
ChatFetchOutcomes ==
  { [kind |-> "neterr", text |-> <<>>], [kind |-> "ok", text |-> <<"Enable 2FA.">>] }

ChatElapsed == {0}

\* the wallet snapshot WalletContext holds
walletData == <<SomeWallet>>

\* availableProviders, set from aiService.getAvailableProviders() on mount
availableProviders ==
  [k \in 1 .. Len(ProviderOrder) |-> getAvailableProviders[ProviderOrder[k]]]

\* toggleAIProvider without the check that a provider stays enabled
toggleAIProviderUnguarded(provider) ==
  /\ aiProviderSettings' = [aiProviderSettings EXCEPT ![provider] = ~@]
  /\ UNCHANGED <<voiceSettings, chatSettings, messages, isLoading, currentSession,
                 selectedResponses, send>>

toggleAIProvider(provider) ==
  /\ LET newSettings == [aiProviderSettings EXCEPT ![provider] = ~@]
         anyEnabled  == \E m \in Models : newSettings[m]
     IN aiProviderSettings' = IF ~anyEnabled THEN aiProviderSettings ELSE newSettings
  /\ UNCHANGED <<voiceSettings, chatSettings, messages, isLoading, currentSession,
                 selectedResponses, send>>

\* handleVoiceToggle where the UnrealSpeech key is configured
toggleVoiceMode ==
  /\ voiceSettings' = [voiceSettings EXCEPT !.enabled = ~@]
  /\ UNCHANGED <<aiProviderSettings, chatSettings, messages, isLoading, currentSession,
                 selectedResponses, send>>

toggleChainMode ==
  /\ chatSettings' = [chatSettings EXCEPT !.chainEnabled = ~@]
  /\ UNCHANGED <<aiProviderSettings, voiceSettings, messages, isLoading, currentSession,
                 selectedResponses, send>>

setShowChainComparison(show) ==
  /\ chatSettings' = [chatSettings EXCEPT !.showChainComparison = show]
  /\ UNCHANGED <<aiProviderSettings, voiceSettings, messages, isLoading, currentSession,
                 selectedResponses, send>>

effectiveProviderSettings ==
  IF voiceSettings.enabled
    THEN [m \in Models |-> m = "openai"]
    ELSE aiProviderSettings

effectiveChatMode ==
  IF chatSettings.chainEnabled /\ chatSettings.showChainComparison THEN "universal"
  ELSE IF chatSettings.chainEnabled THEN "chain"
  ELSE "parallel"

\* availableProviders.filter(provider.enabled && effectiveProviderSettings[provider.id])
chatEnabledProviders ==
  SelectSeq(availableProviders,
            LAMBDA provider : provider.enabled /\ effectiveProviderSettings[provider.id])

NoSend ==
  [pc |-> "idle", sessionId |-> 0, newSession |-> <<>>, effectiveChatMode |-> "parallel",
   voice |-> FALSE]

noProvidersMessage ==
  [id |-> "no-providers-",
   text |-> IF voiceSettings.enabled
              THEN <<"Voice mode requires OpenAI to be available. ",
                     "Please check your API configuration.">>
              ELSE <<"No AI assistants are currently enabled. ",
                     "Please enable at least one AI provider in Settings.">>,
   sender |-> "openai", sessionId |-> <<>>, isLoading |-> FALSE]

userMessage(messageText) ==
  [id |-> "user-", text |-> messageText, sender |-> "user", sessionId |-> <<>>,
   isLoading |-> FALSE]

modelLoadingMessages(sessionId) ==
  [k \in 1 .. Len(chatEnabledProviders) |->
     [id |-> chatEnabledProviders[k].id \o "-loading-",
      text |-> IF voiceSettings.enabled /\ effectiveChatMode # "universal"
                 THEN <<"Generating voice response...">> ELSE <<"Thinking...">>,
      sender |-> chatEnabledProviders[k].id, sessionId |-> <<sessionId>>,
      isLoading |-> TRUE]]

chainLoadingMessages(sessionId) ==
  [c \in ChainIdx |->
     [id |-> "chain-loading-" \o ToString(c - 1) \o "-",
      text |-> IF voiceSettings.enabled /\ effectiveChatMode = "chain"
                 THEN <<"Generating chain response...">>
                 ELSE <<CHAIN_CONFIGS[c].name, "...">>,
      sender |-> ChainId(c), sessionId |-> <<sessionId>>, isLoading |-> TRUE]]

loadingMessages(sessionId) ==
  IF effectiveChatMode = "universal"
    THEN modelLoadingMessages(sessionId) \o chainLoadingMessages(sessionId)
  ELSE IF effectiveChatMode = "chain" THEN chainLoadingMessages(sessionId)
  ELSE modelLoadingMessages(sessionId)

\* the newSession object literal
NewSession(sessionId, messageText) ==
  [id |-> sessionId, timestamp |-> sessionId, question |-> messageText,
   walletData |-> walletData, chatMode |-> effectiveChatMode,
   chainConfig |-> chatSettings.selectedChainConfig, responses |-> EmptyMap,
   chainData |-> <<>>, chainResponses |-> <<>>, selectedOption |-> <<>>]

\* the sends turned down so far
Refusals == Cardinality({k \in 1 .. Len(messages) : messages[k].id = "no-providers-"})

\* handleSendMessageWithText with the check for enabled providers left out
handleSendMessageWithTextUnchecked(text) ==
  LET messageText == Trim(text)
      sessionId   == nextId
  IN IF messageText = <<>> \/ isLoading
       THEN UNCHANGED <<engineVars, storeVars, chatVars>>
       ELSE /\ nextId <= MaxSends
            /\ StartRequest(messageText, effectiveChatMode,
                            [given |-> TRUE, flags |-> effectiveProviderSettings])
            /\ send' = [pc |-> "awaiting", sessionId |-> sessionId,
                        newSession |-> IF voiceSettings.enabled THEN <<>>
                                       ELSE <<NewSession(sessionId, messageText)>>,
                        effectiveChatMode |-> effectiveChatMode,
                        voice |-> voiceSettings.enabled]
            /\ currentSession' = IF voiceSettings.enabled THEN currentSession
                                 ELSE <<NewSession(sessionId, messageText)>>
            /\ messages' = messages \o <<userMessage(messageText)>>
                             \o loadingMessages(sessionId)
            /\ isLoading' = TRUE
            /\ nextId' = nextId + 1
            /\ UNCHANGED <<storeRest, aiProviderSettings, voiceSettings, chatSettings,
                           selectedResponses>>

\* handleSendMessageWithText up to its await of processAIRequest
handleSendMessageWithText(text) ==
  LET messageText == Trim(text)
      sessionId   == nextId
  IN IF messageText = <<>> \/ isLoading
       THEN UNCHANGED <<engineVars, storeVars, chatVars>>
     ELSE IF Len(chatEnabledProviders) = 0
       THEN /\ Refusals < MaxRefusals
            /\ messages' = Append(messages, noProvidersMessage)
            /\ UNCHANGED <<engineVars, storeVars, aiProviderSettings, voiceSettings,
                           chatSettings, isLoading, currentSession, selectedResponses,
                           send>>
       ELSE /\ nextId <= MaxSends
            /\ StartRequest(messageText, effectiveChatMode,
                            [given |-> TRUE, flags |-> effectiveProviderSettings])
            /\ send' = [pc |-> "awaiting", sessionId |-> sessionId,
                        newSession |-> IF voiceSettings.enabled THEN <<>>
                                       ELSE <<NewSession(sessionId, messageText)>>,
                        effectiveChatMode |-> effectiveChatMode,
                        voice |-> voiceSettings.enabled]
            /\ currentSession' = IF voiceSettings.enabled THEN currentSession
                                 ELSE <<NewSession(sessionId, messageText)>>
            /\ messages' = messages \o <<userMessage(messageText)>>
                             \o loadingMessages(sessionId)
            /\ isLoading' = TRUE
            /\ nextId' = nextId + 1
            /\ UNCHANGED <<storeRest, aiProviderSettings, voiceSettings, chatSettings,
                           selectedResponses>>

\* a ChatMessage of the service shown under session sessionId
WithSession(response, sessionId, sender) ==
  [id |-> response.id, text |-> response.text, sender |-> sender,
   sessionId |-> <<sessionId>>, isLoading |-> FALSE]

parallelWithSession(responses, sessionId) ==
  [k \in 1 .. Len(responses) |->
     WithSession(responses[k], sessionId, responses[k].sender)]

chainsWithSession(chainedResults, sessionId) ==
  [k \in 1 .. Len(chainedResults) |->
     WithSession(chainedResults[k].finalResponse, sessionId, ChainId(k))]

\* responses.forEach(response => session.responses[response.sender] = ...)
WithResponses(session, responses) ==
  LET F[k \in 0 .. Len(responses)] ==
        IF k = 0 THEN session.responses
        ELSE MapPut(F[k - 1], responses[k].sender,
                    [modelId |-> responses[k].sender, content |-> responses[k].text])
  IN [session EXCEPT !.responses = F[Len(responses)]]

\* session.chainResponses = {}; chainedResults.forEach((r, index) => ...)
WithChainResponses(session, chainedResults) ==
  [session EXCEPT !.chainResponses =
     << [id \in {ChainId(k) : k \in 1 .. Len(chainedResults)} |->
           LET k == CHOOSE j \in 1 .. Len(chainedResults) : ChainId(j) = id
           IN [chainConfig |-> CHAIN_CONFIGS[k],
               responses |-> chainedResults[k].responses,
               chainData |-> chainedResults[k].chainData]] >>]

responsesWithSession(mode, r, sessionId) ==
  IF mode = "parallel" THEN parallelWithSession(r.parallelResponses, sessionId)
  ELSE IF mode = "chain" THEN chainsWithSession(r.chainResponses, sessionId)
  ELSE parallelWithSession(r.parallelResponses, sessionId)
         \o chainsWithSession(r.chainResponses, sessionId)

updatedSession(mode, r, session) ==
  IF mode = "parallel" THEN WithResponses(session, r.parallelResponses)
  ELSE IF mode = "chain" THEN WithChainResponses(session, r.chainResponses)
  ELSE WithChainResponses(WithResponses(session, r.parallelResponses), r.chainResponses)

withoutLoading(prev) == SelectSeq(prev, LAMBDA msg : ~msg.isLoading)

\* handleSendMessageWithText after its await, without its finally block
handleSendMessageSettledNoFinally ==
  /\ send.pc = "awaiting"
  /\ ReturnRequest
  /\ IF result.status = "fulfilled"
       THEN LET shown == responsesWithSession(send.effectiveChatMode, result, send.sessionId)
                plays == /\ send.voice
                         /\ \E k \in 1 .. Len(shown) : shown[k].sender = "openai"
            IN /\ currentSession' =
                    IF send.newSession # <<>>
                      THEN <<updatedSession(send.effectiveChatMode, result,
                                            send.newSession[1])>>
                      ELSE currentSession
               /\ messages' = withoutLoading(messages) \o shown
               /\ IF plays
                    THEN send' = [send EXCEPT !.pc = "playing"] /\ isLoading' = isLoading
                    ELSE send' = NoSend /\ isLoading' = isLoading
       ELSE /\ messages' = Append(withoutLoading(messages),
                                  [id |-> "error-",
                                   text |-> <<"Sorry, I encountered an error: ">>,
                                   sender |-> "openai", sessionId |-> <<>>,
                                   isLoading |-> FALSE])
            /\ send' = NoSend
            /\ isLoading' = isLoading
            /\ UNCHANGED currentSession
  /\ UNCHANGED <<storeVars, aiProviderSettings, voiceSettings, chatSettings,
                 selectedResponses>>

\* handleSendMessageWithText from its await of processAIRequest to its await
\* of playResponseAudio, or to its end
handleSendMessageSettled ==
  /\ send.pc = "awaiting"
  /\ ReturnRequest
  /\ IF result.status = "fulfilled"
       THEN LET shown == responsesWithSession(send.effectiveChatMode, result, send.sessionId)
                plays == /\ send.voice
                         /\ \E k \in 1 .. Len(shown) : shown[k].sender = "openai"
            IN /\ currentSession' =
                    IF send.newSession # <<>>
                      THEN <<updatedSession(send.effectiveChatMode, result,
                                            send.newSession[1])>>
                      ELSE currentSession
               /\ messages' = withoutLoading(messages) \o shown
               /\ IF plays
                    THEN send' = [send EXCEPT !.pc = "playing"] /\ isLoading' = isLoading
                    ELSE send' = NoSend /\ isLoading' = FALSE
       ELSE /\ messages' = Append(withoutLoading(messages),
                                  [id |-> "error-",
                                   text |-> <<"Sorry, I encountered an error: ">>,
                                   sender |-> "openai", sessionId |-> <<>>,
                                   isLoading |-> FALSE])
            /\ send' = NoSend
            /\ isLoading' = FALSE
            /\ UNCHANGED currentSession
  /\ UNCHANGED <<storeVars, aiProviderSettings, voiceSettings, chatSettings,
                 selectedResponses>>

\* playResponseAudio settles, played or failed: the handler ends
playResponseAudioSettled ==
  /\ send.pc = "playing"
  /\ send' = NoSend
  /\ isLoading' = FALSE
  /\ UNCHANGED <<engineVars, storeVars, aiProviderSettings, voiceSettings, chatSettings,
                 messages, currentSession, selectedResponses>>

\* the selections of a response the screen is run against
MaxSelections == 2

\* the "Better" button under message k is on screen
SelectionShown(k) ==
  /\ ~voiceSettings.enabled
  /\ messages[k].sender # "user"
  /\ ~messages[k].isLoading
  /\ messages[k].sessionId # <<>>
  /\ Cardinality({ j \in 1 .. Len(messages) :
                     /\ messages[j].sessionId = messages[k].sessionId
                     /\ messages[j].sender # "user"
                     /\ ~messages[j].isLoading }) > 1

\* the saveComparisonData calls that have not settled
SavesInProgress == {slot \in SaveSlots : saves[slot].pc # "idle"}

\* handleResponseSelection saving the session as it stands, the selection
\* not written into the copy it saves
handleResponseSelectionUnset(k, slot) ==
  /\ k \in 1 .. Len(messages)
  /\ SelectionShown(k)
  /\ LET sessionId        == messages[k].sessionId[1]
         selectedProvider == messages[k].sender
     IN /\ selectedResponses' = MapPut(selectedResponses, sessionId, selectedProvider)
        /\ IF currentSession # <<>> /\ currentSession[1].id = sessionId
             THEN /\ Len(appended) + Cardinality(SavesInProgress) < MaxSelections
                  /\ saveComparisonData(slot, currentSession[1])
             ELSE UNCHANGED storeRest
  /\ UNCHANGED <<engineVars, nextId, aiProviderSettings, voiceSettings, chatSettings,
                 messages, isLoading, currentSession, send>>

\* handleResponseSelection(message.sessionId, message.sender), pressed under
\* message k, up to its await of saveComparisonData
handleResponseSelection(k, slot) ==
  /\ k \in 1 .. Len(messages)
  /\ SelectionShown(k)
  /\ LET sessionId        == messages[k].sessionId[1]
         selectedProvider == messages[k].sender
     IN /\ selectedResponses' = MapPut(selectedResponses, sessionId, selectedProvider)
        /\ IF currentSession # <<>> /\ currentSession[1].id = sessionId
             THEN /\ Len(appended) + Cardinality(SavesInProgress) < MaxSelections
                  /\ saveComparisonData(slot,
                        [currentSession[1] EXCEPT !.selectedOption = <<selectedProvider>>])
             ELSE UNCHANGED storeRest
  /\ UNCHANGED <<engineVars, nextId, aiProviderSettings, voiceSettings, chatSettings,
                 messages, isLoading, currentSession, send>>

ChatInit ==
  /\ aiProviderSettings = [m \in Models |-> TRUE]
  /\ voiceSettings = [enabled |-> FALSE]
  /\ chatSettings = [selectedChainConfig |-> <<>>, chainEnabled |-> TRUE,
                     showChainComparison |-> TRUE]
  /\ messages = << [id |-> "welcome", text |-> <<"Hi!">>, sender |-> "openai",
                    sessionId |-> <<>>, isLoading |-> FALSE] >>
  /\ isLoading = FALSE
  /\ currentSession = <<>>
  /\ selectedResponses = NoSelections
  /\ send = NoSend

\* ======================================================== ComparisonScreen
\*
\* The analytics screen: loadAnalyticsData over the TrainingDataService.

VARIABLES
  comparison   \* ComparisonScreen: its state and the position of loadAnalyticsData

\* the chunks of a question that hold a keyword, and the keywords they hold:
\* what String.prototype.includes finds in the lower-cased question
KeywordsIn(chunk) ==
  CASE chunk = "security"       -> {"security"}
    [] chunk = "safe"           -> {"safe"}
    [] chunk = "staking risks"  -> {"risk"}
    [] chunk = "hack"           -> {"hack"}
    [] chunk = "technical"      -> {"technical"}
    [] chunk = "code"           -> {"code"}
    [] chunk = "develop"        -> {"develop"}
    [] chunk = "smart contract" -> {"smart contract"}
    [] OTHER                    -> {}

\* String.prototype.toLowerCase over the chunks the questions are made of
ToLowerCase(text) ==
  [k \in 1 .. Len(text) |->
     CASE text[k] = "SAFE"           -> "safe"
       [] text[k] = "Smart Contract" -> "smart contract"
       [] text[k] = "How do I "      -> "how do i "
       [] text[k] = "Is this "       -> "is this "
       [] OTHER                      -> text[k]]

\* question.includes(keyword)
Includes(question, keyword) ==
  \E k \in 1 .. Len(question) : keyword \in KeywordsIn(question[k])

\* categoryOf with the technical keywords looked for first
categoryOfTechnicalFirst(entry) ==
  LET question == ToLowerCase(entry.question)
  IN IF \E kw \in {"technical", "code", "develop", "smart contract"} :
          Includes(question, kw)
       THEN "technical"
     ELSE IF \E kw \in {"security", "safe", "risk", "hack"} : Includes(question, kw)
       THEN "security"
     ELSE "general"

\* the category the forEach of loadAnalyticsData files an entry under
categoryOf(entry) ==
  LET question == ToLowerCase(entry.question)
  IN IF \E kw \in {"security", "safe", "risk", "hack"} : Includes(question, kw)
       THEN "security"
     ELSE IF \E kw \in {"technical", "code", "develop", "smart contract"} :
          Includes(question, kw)
       THEN "technical"
     ELSE "general"

\* if (entry.selectedOption): neither null nor the empty string
SelectedTruthy(entry) ==
  /\ Field(entry, "selectedOption") # <<>>
  /\ Field(entry, "selectedOption")[1] # ""

\* { [optionId]: count } after the forEach over a list: the options counted
\* and the count of each
TallyOf(list) ==
  [opt \in {list[k].selectedOption[1] : k \in {j \in 1 .. Len(list) : SelectedTruthy(list[j])}} |->
     Cardinality({k \in 1 .. Len(list) :
                    SelectedTruthy(list[k]) /\ list[k].selectedOption[1] = opt})]

Categories == {"security", "technical", "general"}

\* the categories object after the forEach over validData
CategoryAnalysisOf(validData) ==
  [cat \in Categories |->
     TallyOf(SelectSeq(validData, LAMBDA entry : categoryOf(entry) = cat))]

\* the option Object.entries meets first among those counted most often in
\* the last 10 selections, as recentTrend; "No clear trend" when none is
RecentTrendOf(validData) ==
  LET recent == Slice0(validData, 10)
      tally  == TallyOf(recent)
      first(opt) == CHOOSE k \in 1 .. Len(recent) :
                      /\ SelectedTruthy(recent[k]) /\ recent[k].selectedOption[1] = opt
                      /\ \A j \in 1 .. (k - 1) :
                           ~(SelectedTruthy(recent[j]) /\ recent[j].selectedOption[1] = opt)
  IN IF DOMAIN tally = {}
       THEN [type |-> "tied", id |-> "", name |-> "No clear trend"]
       ELSE LET best == CHOOSE opt \in DOMAIN tally :
                          \A other \in DOMAIN tally :
                             \/ tally[other] < tally[opt]
                             \/ tally[other] = tally[opt] /\ first(opt) <= first(other)
            IN IF \E c \in ChainIdx : ChainId(c) = best
                 THEN [type |-> "chain", id |-> best,
                       name |-> CHAIN_CONFIGS[CHOOSE c \in ChainIdx : ChainId(c) = best].name]
                 ELSE [type |-> "model", id |-> best,
                       name |-> IF best \in DOMAIN AI_MODELS THEN AI_MODELS[best].name
                                ELSE best]

\* wins / totalSelections * 100, kept as a fraction
WinRate(wins, totalSelections) ==
  IF totalSelections > 0 THEN [num |-> wins * 100, den |-> totalSelections]
  ELSE [num |-> 0, den |-> 1]

\* the metrics object handed to setMetrics
MetricsOf(extStats, validData) ==
  [totalSessions |-> extStats.totalSessions,
   withSelections |-> extStats.withSelections,
   modelStats |->
     [k \in 1 .. Len(extStats.modelStats) |->
        [modelId |-> extStats.modelStats[k].modelId,
         totalSessions |-> extStats.modelStats[k].totalSessions,
         wins |-> extStats.modelStats[k].wins,
         winRate |-> WinRate(extStats.modelStats[k].wins, Len(validData))]],
   chainStats |->
     [k \in 1 .. Len(extStats.chainStats) |->
        [chainId |-> ChainId(k),
         name |-> extStats.chainStats[k].chainConfig.name,
         totalSessions |-> extStats.chainStats[k].totalSessions,
         wins |-> extStats.chainStats[k].wins,
         winRate |-> WinRate(extStats.chainStats[k].wins, Len(validData))]],
   parallelSessions |-> extStats.parallelSessions,
   chainSessions |-> extStats.chainSessions,
   universalSessions |-> extStats.universalSessions,
   recentTrend |-> RecentTrendOf(validData)]

NoTally == [opt \in {} |-> 0]

\* the useState initial values of ComparisonScreen, loadAnalyticsData not begun
ComparisonIdle ==
  [pc |-> "idle", extStats |-> <<>>, trainingData |-> <<>>,
   metrics |-> [totalSessions |-> 0, withSelections |-> 0, modelStats |-> <<>>,
                chainStats |-> <<>>, parallelSessions |-> 0, chainSessions |-> 0,
                universalSessions |-> 0,
                recentTrend |-> [type |-> "tied", id |-> "", name |-> "No trend available"]],
   categoryAnalysis |-> [cat \in Categories |-> NoTally],
   totalSelections |-> 0]

ComparisonInit == comparison = ComparisonIdle

\* loadAnalyticsData up to its second await: getExtensibleStats has returned
loadAnalyticsData ==
  /\ comparison.pc \in {"idle", "loaded"}
  /\ \E readOk \in BOOLEAN :
       comparison' = [comparison EXCEPT
                        !.pc = "reading",
                        !.extStats = <<ExtensibleStats(getAllTrainingData(readOk))>>]

\* loadAnalyticsData from the return of getAllTrainingData to its end
loadAnalyticsDataLoaded ==
  /\ comparison.pc = "reading"
  /\ \E readOk \in BOOLEAN :
       LET data      == getAllTrainingData(readOk)
           validData == SelectSeq(data, HasSelection)
       IN comparison' = [pc |-> "loaded", extStats |-> <<>>,
                         trainingData |-> validData,
                         metrics |-> MetricsOf(comparison.extStats[1], validData),
                         categoryAnalysis |-> CategoryAnalysisOf(validData),
                         totalSelections |-> Len(validData)]

\* ===================================================== ChatScreen, prompts
\*
\* The suggested prompts and the text input of the chat screen.  A prompt tap
\* sends through a timer, whose callback is the handleSendMessageWithText of
\* the render the tap was made in: it reads the isLoading of that render.
\* Every call of the handler awaits its own processAIRequest call.

\* the taps on a suggested prompt in one run
MaxTaps == 2

\* the requests made in one run
MaxPromptSends == 3

VARIABLES
  inputText,   \* ChatScreen: the text input
  timers,      \* the setTimeout callbacks of handlePromptSelect not yet run
  calls        \* the handleSendMessageWithText calls awaiting processAIRequest

promptVars == <<inputText, timers, calls>>

suggestedPrompts == { <<"Analyze my wallet security">>, <<"Explain staking risks">> }

\* what processAIRequest resolves with for a request of the mode
PromptResults(mode) ==
  { [status |-> "fulfilled",
     kind |-> IF mode = "chain" THEN "chains"
              ELSE IF mode = "universal" THEN "universal" ELSE "messages",
     parallelResponses |->
       IF RunsParallel(mode)
         THEN [k \in 1 .. Len(chatEnabledProviders) |->
                 [id |-> chatEnabledProviders[k].id \o "-", text |-> <<"Enable 2FA.">>,
                  sender |-> chatEnabledProviders[k].id, sessionId |-> ""]]
         ELSE <<>>,
     chainResponses |->
       IF RunsChains(mode)
         THEN [c \in ChainIdx |->
                 [NoChained EXCEPT
                    !.finalResponse =
                       [id |-> "chain-", text |-> <<"Enable 2FA.">>,
                        sender |-> CHAIN_CONFIGS[c].models[Len(CHAIN_CONFIGS[c].models)],
                        sessionId |-> ChainId(c)]]]
         ELSE <<>>],
    [status |-> "rejected", kind |-> "messages", parallelResponses |-> <<>>,
     chainResponses |-> <<>>] }

\* handleSendMessageWithText(text) of a render whose isLoading was loading,
\* up to its await of processAIRequest
SendWithText(text, loading) ==
  LET messageText == Trim(text)
      sessionId   == nextId
  IN IF messageText = <<>> \/ loading
       THEN UNCHANGED <<nextId, messages, isLoading, currentSession, inputText, calls>>
     ELSE IF Len(chatEnabledProviders) = 0
       THEN /\ Refusals < MaxRefusals
            /\ messages' = Append(messages, noProvidersMessage)
            /\ UNCHANGED <<nextId, isLoading, currentSession, inputText, calls>>
       ELSE /\ nextId <= MaxPromptSends
            /\ calls' = calls \cup
                 { [sessionId |-> sessionId,
                    newSession |-> IF voiceSettings.enabled THEN <<>>
                                   ELSE <<NewSession(sessionId, messageText)>>,
                    effectiveChatMode |-> effectiveChatMode,
                    voice |-> voiceSettings.enabled] }
            /\ currentSession' = IF voiceSettings.enabled THEN currentSession
                                 ELSE <<NewSession(sessionId, messageText)>>
            /\ messages' = messages \o <<userMessage(messageText)>>
                             \o loadingMessages(sessionId)
            /\ inputText' = <<>>
            /\ isLoading' = TRUE
            /\ nextId' = nextId + 1

promptRest ==
  <<engineVars, storeRest, aiProviderSettings, voiceSettings, chatSettings,
    selectedResponses, send, comparison>>

\* onChangeText
setInputText(text) ==
  /\ inputText' = text
  /\ UNCHANGED <<promptRest, nextId, messages, isLoading, currentSession, timers, calls>>

\* handlePromptSelect: the prompts are on screen while the chat has only its
\* welcome message, their buttons disabled while loading
handlePromptSelect(prompt) ==
  /\ Len(messages) <= 1
  /\ ~isLoading
  /\ Len(timers) < MaxTaps
  /\ inputText' = prompt
  /\ timers' = Append(timers, [prompt |-> prompt, isLoading |-> isLoading])
  /\ UNCHANGED <<promptRest, nextId, messages, isLoading, currentSession, calls>>

\* the callback of the oldest timer runs
PromptTimerFires ==
  /\ timers # <<>>
  /\ SendWithText(timers[1].prompt, timers[1].isLoading)
  /\ timers' = Tail(timers)
  /\ UNCHANGED promptRest

\* handleSendMessage, from the send button or the keyboard
handleSendMessage ==
  /\ ~(Trim(inputText) = <<>> \/ isLoading)
  /\ SendWithText(Trim(inputText), isLoading)
  /\ UNCHANGED <<promptRest, timers>>

\* handleSendMessageWithText from the return of its processAIRequest call to
\* its end
PromptRequestReturns(call, r) ==
  /\ call \in calls
  /\ IF r.status = "fulfilled"
       THEN LET shown == responsesWithSession(call.effectiveChatMode, r, call.sessionId)
            IN /\ currentSession' =
                    IF call.newSession # <<>>
                      THEN <<updatedSession(call.effectiveChatMode, r, call.newSession[1])>>
                      ELSE currentSession
               /\ messages' = withoutLoading(messages) \o shown
       ELSE /\ messages' = Append(withoutLoading(messages),
                                  [id |-> "error-",
                                   text |-> <<"Sorry, I encountered an error: ">>,
                                   sender |-> "openai", sessionId |-> <<>>,
                                   isLoading |-> FALSE])
            /\ UNCHANGED currentSession
  /\ isLoading' = FALSE
  /\ calls' = calls \ {call}
  /\ UNCHANGED <<promptRest, nextId, inputText, timers>>

PromptInit ==
  /\ inputText = <<>>
  /\ timers = <<>>
  /\ calls = {}

\* ---------------------------------------------------------- specifications

vars == <<engineVars, storeVars, chatVars, comparison, promptVars>>

\* the AIService serving processAIRequest calls
Init == EngineInit /\ StoreInit /\ ChatInit /\ ComparisonInit /\ PromptInit

Next ==
  \/ /\ \E q \in Questions, mode \in ChatModes, ep \in ProviderFilters :
          StartRequest(q, mode, ep)
     /\ UNCHANGED <<storeVars, chatVars, comparison, promptVars>>
  \/ /\ \E m \in Models, o \in FetchOutcomes : SettleProvider(m, o)
     /\ UNCHANGED <<storeVars, chatVars, comparison, promptVars>>
  \/ /\ \E c \in ChainIdx, o \in FetchOutcomes, elapsed \in 0 .. MaxElapsed :
          SettleChainStep(c, o, elapsed)
     /\ UNCHANGED <<storeVars, chatVars, comparison, promptVars>>
  \/ /\ SettleRequest
     /\ UNCHANGED <<storeVars, chatVars, comparison, promptVars>>
  \/ /\ ReturnRequest
     /\ UNCHANGED <<storeVars, chatVars, comparison, promptVars>>

Spec == Init /\ [][Next]_vars

\* the TrainingDataService serving its callers
StoreSpecInit ==
  /\ apiKey = [m \in Models |-> TRUE]
  /\ EngineIdle
  /\ StoreInit
  /\ ChatInit
  /\ ComparisonInit
  /\ PromptInit

StoreNext ==
  \/ /\ \E slot \in SaveSlots, shape \in SessionShapes : SaveBegin(slot, shape)
     /\ UNCHANGED <<engineVars, chatVars, comparison, promptVars>>
  \/ /\ \E slot \in SaveSlots : SaveRead(slot)
     /\ UNCHANGED <<engineVars, chatVars, comparison, promptVars>>
  \/ /\ \E slot \in SaveSlots : SaveWrite(slot)
     /\ UNCHANGED <<engineVars, chatVars, comparison, promptVars>>
  \/ /\ clearAllData
     /\ UNCHANGED <<engineVars, chatVars, comparison, promptVars>>
  \/ /\ getTrainingDataForExport
     /\ UNCHANGED <<engineVars, chatVars, comparison, promptVars>>
  \/ /\ getExtensibleStats
     /\ UNCHANGED <<engineVars, chatVars, comparison, promptVars>>

StoreSpec == StoreSpecInit /\ [][StoreNext]_vars

\* the backend whose calls never settle: fetch has no timeout and no signal
HungBackend == "gemini"

\* the backend the call chain c awaits was sent to
AwaitedBackend(c) == CHAIN_CONFIGS[c].models[chain[c].i + 1]

\* the AIService serving processAIRequest calls while one backend hangs
HangNext ==
  \/ /\ \E q \in Questions, mode \in ChatModes, ep \in ProviderFilters :
          StartRequest(q, mode, ep)
     /\ UNCHANGED <<storeVars, chatVars, comparison, promptVars>>
  \/ /\ \E m \in Models \ {HungBackend}, o \in FetchOutcomes : SettleProvider(m, o)
     /\ UNCHANGED <<storeVars, chatVars, comparison, promptVars>>
  \/ /\ \E c \in ChainIdx, o \in FetchOutcomes, elapsed \in 0 .. MaxElapsed :
          /\ AwaitedBackend(c) # HungBackend
          /\ SettleChainStep(c, o, elapsed)
     /\ UNCHANGED <<storeVars, chatVars, comparison, promptVars>>
  \/ /\ SettleRequest
     /\ UNCHANGED <<storeVars, chatVars, comparison, promptVars>>
  \/ /\ ReturnRequest
     /\ UNCHANGED <<storeVars, chatVars, comparison, promptVars>>

HangSpec == Init /\ [][HangNext]_vars

\* a record left under STORAGE_KEY that is not a training entry of this
\* service: it has no responses map
CorruptEntry ==
  [id |-> 0, timestamp |-> 0, question |-> <<"what is SUI?">>, walletData |-> <<>>,
   chatMode |-> "parallel", selectedOption |-> <<>>]

\* the TrainingDataService started over a store that holds such a record
CorruptStoreInit ==
  /\ apiKey = [m \in Models |-> TRUE]
  /\ EngineIdle
  /\ ChatInit
  /\ ComparisonInit
  /\ PromptInit
  /\ storage = <<CorruptEntry>>
  /\ saves = [slot \in SaveSlots |-> SaveIdle]
  /\ nextId = 1
  /\ appended = <<>>
  /\ overlapped = FALSE
  /\ readFailed = FALSE
  /\ exported = <<>>
  /\ stats = <<>>
  /\ prevStats = <<>>

CorruptStoreSpec == CorruptStoreInit /\ [][StoreNext]_vars

\* the entries of the stores the analytics screen is opened over
MaxStored == 2

AnalyticsQuestions ==
  { <<"is my wallet secure?">>,
    <<"explain", "staking risks">>,
    <<"How do I ", "develop", " a ", "Smart Contract", "?">>,
    <<"Is this ", "code", " ", "SAFE", "?">> }

\* universal-mode sessions the chat screen saves, and sessions saved unselected
AnalyticsShapes ==
  { [question |-> q, walletData |-> <<SomeWallet>>,
     chatMode |-> "universal", chainConfig |-> <<>>,
     responses |-> ResponsesOf({"openai", "gemini"}), chainData |-> <<>>,
     chainResponses |-> <<ChainResponsesAll>>, selectedOption |-> sel] :
      q \in AnalyticsQuestions, sel \in {<<>>, <<"openai">>, <<"chain_1">>} }

\* the stored lists: what saveComparisonData wrote for the sessions, newest first
AnalyticsStores ==
  UNION { { [k \in 1 .. n |-> JsonObject(TrainingEntry(SessionOf(shapes[k], n + 1 - k)))] :
              shapes \in [1 .. n -> AnalyticsShapes] } : n \in 0 .. MaxStored }

\* the comparison screen opened over a store
AnalyticsInit ==
  /\ apiKey = [m \in Models |-> TRUE]
  /\ EngineIdle
  /\ ChatInit
  /\ ComparisonInit
  /\ PromptInit
  /\ storage \in AnalyticsStores
  /\ saves = [slot \in SaveSlots |-> SaveIdle]
  /\ nextId = Len(storage) + 1
  /\ appended = Reverse(storage)
  /\ overlapped = FALSE
  /\ readFailed = FALSE
  /\ exported = <<>>
  /\ stats = <<>>
  /\ prevStats = <<>>

AnalyticsNext ==
  \/ /\ loadAnalyticsData
     /\ UNCHANGED <<engineVars, storeVars, chatVars, promptVars>>
  \/ /\ loadAnalyticsDataLoaded
     /\ UNCHANGED <<engineVars, storeVars, chatVars, promptVars>>

AnalyticsSpec == AnalyticsInit /\ [][AnalyticsNext]_vars

\* the chat screen over the AIService
ChatNext ==
  \/ /\ \E provider \in Models : toggleAIProvider(provider)
     /\ UNCHANGED <<engineVars, storeVars, comparison, promptVars>>
  \/ /\ toggleVoiceMode
     /\ UNCHANGED <<engineVars, storeVars, comparison, promptVars>>
  \/ /\ toggleChainMode
     /\ UNCHANGED <<engineVars, storeVars, comparison, promptVars>>
  \/ /\ \E show \in BOOLEAN : setShowChainComparison(show)
     /\ UNCHANGED <<engineVars, storeVars, comparison, promptVars>>
  \/ /\ \E text \in ChatInputs : handleSendMessageWithText(text)
     /\ UNCHANGED <<comparison, promptVars>>
  \/ /\ \E m \in Models, o \in ChatFetchOutcomes : SettleProvider(m, o)
     /\ UNCHANGED <<storeVars, chatVars, comparison, promptVars>>
  \/ /\ \E c \in ChainIdx, o \in ChatFetchOutcomes, elapsed \in ChatElapsed :
          SettleChainStep(c, o, elapsed)
     /\ UNCHANGED <<storeVars, chatVars, comparison, promptVars>>
  \/ /\ SettleRequest
     /\ UNCHANGED <<storeVars, chatVars, comparison, promptVars>>
  \/ /\ handleSendMessageSettled
     /\ UNCHANGED <<comparison, promptVars>>
  \/ /\ playResponseAudioSettled
     /\ UNCHANGED <<comparison, promptVars>>

ChatSpec == Init /\ [][ChatNext]_vars

\* the chat screen where every call a request has issued settles and every
\* continuation that is ready runs: the fetch of each provider, the step in
\* progress of each chain, the awaits of processAIRequest, the handler after
\* its await, the voice playback
ChatFairness ==
  /\ \A m \in Models :
       WF_vars(/\ \E o \in ChatFetchOutcomes : SettleProvider(m, o)
               /\ UNCHANGED <<storeVars, chatVars, comparison, promptVars>>)
  /\ \A c \in ChainIdx :
       WF_vars(/\ \E o \in ChatFetchOutcomes, elapsed \in ChatElapsed :
                    SettleChainStep(c, o, elapsed)
               /\ UNCHANGED <<storeVars, chatVars, comparison, promptVars>>)
  /\ WF_vars(SettleRequest /\ UNCHANGED <<storeVars, chatVars, comparison, promptVars>>)
  /\ WF_vars(handleSendMessageSettled /\ UNCHANGED <<comparison, promptVars>>)
  /\ WF_vars(playResponseAudioSettled /\ UNCHANGED <<comparison, promptVars>>)

FairChatSpec == ChatSpec /\ ChatFairness

\* the chat screen, voice mode off and both providers switched on, saving the
\* user's selections in the TrainingDataService
TrainingNext ==
  \/ /\ toggleChainMode
     /\ UNCHANGED <<engineVars, storeVars, comparison, promptVars>>
  \/ /\ \E show \in BOOLEAN : setShowChainComparison(show)
     /\ UNCHANGED <<engineVars, storeVars, comparison, promptVars>>
  \/ /\ \E text \in ChatInputs : handleSendMessageWithText(text)
     /\ UNCHANGED <<comparison, promptVars>>
  \/ /\ \E m \in Models, o \in ChatFetchOutcomes : SettleProvider(m, o)
     /\ UNCHANGED <<storeVars, chatVars, comparison, promptVars>>
  \/ /\ \E c \in ChainIdx, o \in ChatFetchOutcomes, elapsed \in ChatElapsed :
          SettleChainStep(c, o, elapsed)
     /\ UNCHANGED <<storeVars, chatVars, comparison, promptVars>>
  \/ /\ SettleRequest
     /\ UNCHANGED <<storeVars, chatVars, comparison, promptVars>>
  \/ /\ handleSendMessageSettled
     /\ UNCHANGED <<comparison, promptVars>>
  \/ /\ \E k \in 1 .. Len(messages), slot \in SaveSlots : handleResponseSelection(k, slot)
     /\ UNCHANGED <<comparison, promptVars>>
  \/ /\ \E slot \in SaveSlots : SaveRead(slot)
     /\ UNCHANGED <<engineVars, chatVars, comparison, promptVars>>
  \/ /\ \E slot \in SaveSlots : SaveWrite(slot)
     /\ UNCHANGED <<engineVars, chatVars, comparison, promptVars>>

TrainingSpec == Init /\ [][TrainingNext]_vars

\* the chat screen with its suggested prompts, each request awaited by the
\* call that made it
PromptNext ==
  \/ \E text \in ChatInputs : setInputText(text)
  \/ \E prompt \in suggestedPrompts : handlePromptSelect(prompt)
  \/ PromptTimerFires
  \/ handleSendMessage
  \/ \E call \in calls : \E r \in PromptResults(call.effectiveChatMode) :
       PromptRequestReturns(call, r)

PromptSpec == Init /\ [][PromptNext]_vars

\* ------------------------------------------------------------------ claims

\* the models that are available (credential present) and enabled by the
\* user filter of the request
Eligible == { m \in Models :
                apiKey[m] /\ (req.enabledProviders.given => req.enabledProviders.flags[m]) }

IsErrorText(m, text) ==
  Len(text) >= 2 /\ SubSeq(text, 1, 2) = <<AI_MODELS[m].name, " encountered an error: ">>

\* C1 -- parallel completeness: a settled request that ran askMultipleAIs with
\* K eligible models holds exactly K messages, one per eligible model and
\* tagged with that model as sender, whichever backend calls failed.
C1_ParallelCompleteness ==
  (pc = "settled" /\ RunsParallel(req.chatMode)) =>
     LET out == result.parallelResponses
     IN /\ Len(out) = Cardinality(Eligible)
        /\ \A k \in 1 .. Len(out) : out[k].sender \in Eligible
        /\ \A m \in Eligible :
             Cardinality({k \in 1 .. Len(out) : out[k].sender = m}) = 1

\* a parallel request with both models eligible where one call failed and the
\* other answered
C1_Witness ==
  /\ pc = "settled" /\ req.chatMode = "parallel"
  /\ Eligible = Models
  /\ Len(result.parallelResponses) = 2
  /\ \E j, k \in 1 .. 2 :
       /\ IsErrorText(result.parallelResponses[j].sender, result.parallelResponses[j].text)
       /\ result.parallelResponses[k].text \in Answers

\* C2 -- chain step ordering: a chain that ran to its end has one step per
\* model of its sequence, indexed 0..N-1 in order; step 0 was sent the question
\* verbatim and every later step a prompt containing the previous step's
\* response text and the question.
C2_ChainStepOrdering ==
  \A c \in ChainIdx :
     chain[c].st = "returned" =>
        LET steps == chain[c].res.chainData.steps
            N     == Len(CHAIN_CONFIGS[c].models)
        IN /\ Len(steps) = N
           /\ \A k \in 1 .. N :
                /\ steps[k].stepIndex = k - 1
                /\ steps[k].modelId = CHAIN_CONFIGS[c].models[k]
           /\ steps[1].prompt = req.question
           /\ \A k \in 2 .. N :
                /\ steps[k - 1].response.content # <<>>
                /\ Contains(steps[k].prompt, steps[k - 1].response.content)
                /\ Contains(steps[k].prompt, req.question)

\* a two-step chain that ran to its end on a two-chunk answer
C2_Witness ==
  \E c \in ChainIdx :
     /\ chain[c].st = "returned"
     /\ Len(chain[c].res.chainData.steps) = 2
     /\ Len(chain[c].res.chainData.steps[1].response.content) = 2
     /\ chain[c].res.chainData.steps[2].prompt # req.question

\* executeAIChain run alone on the outcomes h, start to finish
RunChain(config, question, h, elapsed) ==
  LET F[k \in 0 .. Len(h)] ==
        IF k = 0 THEN EnterStep(config, question, ChainIdle, 0)
        ELSE AfterStep(config, question, F[k - 1],
                       Ask(config.models[F[k - 1].i + 1], h[k]), elapsed)
  IN F[Len(h)]

\* C3 -- chain isolation: each chain's state, and its entry in the settled
\* result, is what the chain yields when run alone on the outcomes of its own
\* backend calls, whatever the other chains did; a chain in flight can always
\* take its next step.
C3_ChainIsolation ==
  (pc # "idle" /\ RunsChains(req.chatMode)) =>
     \A c \in ChainIdx :
        LET alone == RunChain(CHAIN_CONFIGS[c], req.question, hist[c],
                              chain[c].res.chainData.totalProcessingTime)
        IN /\ chain[c] = alone
           /\ (chain[c].st = "inflight" =>
                 ENABLED (\E o \in FetchOutcomes, elapsed \in 0 .. MaxElapsed :
                            SettleChainStep(c, o, elapsed)))
           /\ (pc = "settled" /\ alone.st = "returned") =>
                 \E k \in 1 .. Len(result.chainResponses) :
                    result.chainResponses[k] =
                      [alone.res EXCEPT !.finalResponse.sessionId = ChainId(c)]

\* chain_0 failed at its first step and chain_1 ran both its steps
C3_Witness ==
  /\ pc = "settled" /\ req.chatMode = "chain"
  /\ chain[1].st = "threw" /\ chain[1].i = 0 /\ Len(hist[1]) = 1
  /\ chain[2].st = "returned" /\ Len(chain[2].res.chainData.steps) = 2
  /\ Len(result.chainResponses) = 2
  /\ result.chainResponses[2].chainData.steps = chain[2].res.chainData.steps

\* C9 -- no backend failure escapes: processAIRequest settles fulfilled in
\* every mode, with the result shape of its mode; in universal mode the result
\* carries the parallel set and the chain set.
C9_NoFailureEscapes ==
  /\ (pc = "pending" /\ AllSettled) => ENABLED SettleRequest
  /\ pc = "settled" =>
       /\ result.status = "fulfilled"
       /\ req.chatMode = "parallel" => result.kind = "messages"
       /\ req.chatMode = "chain" => result.kind = "chains"
       /\ req.chatMode = "universal" =>
            /\ result.kind = "universal"
            /\ Len(result.parallelResponses) = Cardinality(Eligible)
            /\ Len(result.chainResponses) = Len(CHAIN_CONFIGS)

\* a universal request without the Gemini credential whose OpenAI calls failed
\* or came back empty
C9_Witness ==
  /\ pc = "settled" /\ req.chatMode = "universal"
  /\ ~apiKey["gemini"] /\ apiKey["openai"]
  /\ Len(hist[1]) = 1 /\ hist[1][1].kind = "empty"
  /\ chain[1].st = "threw" /\ chain[2].st = "threw"
  /\ Len(result.parallelResponses) = 1
  /\ IsErrorText("openai", result.parallelResponses[1].text)

\* C10 -- one result per catalogued chain, in catalogue order: result k is
\* tagged chain_(k-1) and is chain k's own result, and a chain whose execution
\* threw is an error-shaped result with no steps, zero total processing time
\* and the error text as the final response.
C10_OneResultPerChain ==
  (pc = "settled" /\ RunsChains(req.chatMode)) =>
     LET out == result.chainResponses
     IN /\ Len(out) = Len(CHAIN_CONFIGS)
        /\ \A k \in 1 .. Len(out) :
             /\ out[k].finalResponse.sessionId = ChainId(k)
             /\ out[k].chainData.finalModelId
                  = CHAIN_CONFIGS[k].models[Len(CHAIN_CONFIGS[k].models)]
             /\ chain[k].st = "returned" =>
                  out[k] = [chain[k].res EXCEPT !.finalResponse.sessionId = ChainId(k)]
             /\ chain[k].st = "threw" =>
                  /\ out[k].chainData.steps = <<>>
                  /\ out[k].chainData.totalProcessingTime = 0
                  /\ out[k].responses = EmptyMap
                  /\ out[k].finalResponse.text
                       = <<"Chain \"", CHAIN_CONFIGS[k].name, "\" failed: ">> \o chain[k].err
                  /\ chain[k].err # <<>>

\* chain_0 threw at its second step, after one completed step, and chain_1
\* returned
C10_Witness ==
  /\ pc = "settled" /\ req.chatMode = "chain"
  /\ chain[1].st = "threw" /\ chain[1].i = 1 /\ Len(chain[1].steps) = 1
  /\ chain[2].st = "returned"
  /\ result.chainResponses[1].chainData.steps = <<>>
  /\ Len(result.chainResponses[2].chainData.steps) = 2


\* chain c has had a model invoked for this request
ChainInvoked(c) == chain[c].st = "inflight" \/ Len(hist[c]) > 0

\* C11 -- chain runnability follows user enablement: in chain and universal
\* mode a chain has a model invoked only if every model of its sequence is in
\* the registry and enabled in the enabledProviders of the request.
C11_ChainRunnability ==
  (pc # "idle" /\ RunsChains(req.chatMode) /\ req.enabledProviders.given) =>
     \A c \in ChainIdx :
        ChainInvoked(c) =>
          \A k \in 1 .. Len(CHAIN_CONFIGS[c].models) :
             /\ CHAIN_CONFIGS[c].models[k] \in DOMAIN AI_MODELS
             /\ req.enabledProviders.flags[CHAIN_CONFIGS[c].models[k]]


\* C18 -- malformed backend answers are failures: for every backend, a call
\* that gets a success status whose answer field is absent or empty fails; it
\* is never turned into a successful response and its text is never fed into
\* the next chain step.  In a chain: the step that consumed such an answer is
\* the last one the chain made, and the chain threw.
C18_MalformedAnswerFails ==
  \A c \in ChainIdx :
     \A k \in 1 .. Len(hist[c]) :
        hist[c][k].kind = "empty" => (k = Len(hist[c]) /\ chain[c].st = "threw")

\* a call of the request is awaited from the backend that hangs
HungInFlight ==
  \/ par[HungBackend].st = "inflight"
  \/ \E c \in ChainIdx : chain[c].st = "inflight" /\ AwaitedBackend(c) = HungBackend

\* every call of the request that can settle has settled, one at least
SiblingsSettled ==
  /\ \A m \in Models \ {HungBackend} : par[m].st # "inflight"
  /\ \A c \in ChainIdx : chain[c].st = "inflight" => AwaitedBackend(c) = HungBackend
  /\ \/ \E m \in Models : par[m].st = "fulfilled"
     \/ \E c \in ChainIdx : ChainFinished(chain[c])

\* C19 -- a hung backend stalls only its own branch: if one backend call of a
\* request never settles, the results of the sibling models and chains that
\* do settle are still eventually delivered to the caller.  Once the siblings
\* have settled no step is left but the delivery, so the delivery is due:
\* processAIRequest can settle.
C19_HungCallStallsOwnBranch ==
  (pc = "pending" /\ HungInFlight /\ SiblingsSettled) => ENABLED SettleRequest

\* the calls askMultipleAIs has sent to backend m for this request
ParallelCalls(m) == IF par[m].st # "excluded" /\ apiKey[m] THEN 1 ELSE 0

\* the steps of chain c whose call has been sent: those that have resolved and
\* the one awaited
StepsSent(c) == Len(hist[c]) + (IF chain[c].st = "inflight" THEN 1 ELSE 0)

\* the calls the chains have sent to backend m, if each chain has sent only
\* the steps that have resolved and the one it awaits
ChainCalls(m) ==
  LET F[c \in 0 .. Len(CHAIN_CONFIGS)] ==
        IF c = 0 THEN 0
        ELSE F[c - 1]
               + Cardinality({k \in 1 .. StepsSent(c) : CHAIN_CONFIGS[c].models[k] = m})
  IN F[Len(CHAIN_CONFIGS)]

\* C20 -- strict sequencing inside a chain: the call of step i+1 is not issued
\* until the call of step i has resolved, so at most one call of a chain is
\* in flight at any time; different chains, and the parallel branch, may have
\* calls in flight at once.  The requests sent to each backend are those of
\* the parallel branch and, per chain, those of the resolved steps and of the
\* one step awaited, which is the step after the resolved ones.
C20_StrictChainSequencing ==
  /\ \A c \in ChainIdx :
        /\ chain[c].st = "inflight" => chain[c].i = Len(hist[c])
        /\ StepsSent(c) <= Len(CHAIN_CONFIGS[c].models)
  /\ \A m \in Models : fetches[m] = ParallelCalls(m) + ChainCalls(m)

\* both chains and a provider of the parallel branch are awaited at once, one
\* chain at its second step
C20_Witness ==
  /\ pc = "pending"
  /\ \A c \in ChainIdx : chain[c].st = "inflight"
  /\ \E m \in Models : par[m].st = "inflight"
  /\ \E c \in ChainIdx : chain[c].i = 1 /\ Len(hist[c]) = 1

\* the backend call of step k of chain c failed
StepFailed(c, k) == ~Ask(CHAIN_CONFIGS[c].models[k], hist[c][k]).ok

\* C21 -- chain abort without retry: when the backend call of step i of a
\* chain fails, no call for a later step of that chain is issued, no call is
\* issued a second time (the calls the chain has had answered are one per
\* step up to the failed one), and the chain's result exposes no partial
\* steps.
C21_ChainAbortWithoutRetry ==
  \A c \in ChainIdx :
     /\ \A k \in 1 .. Len(hist[c]) :
           StepFailed(c, k) => /\ k = Len(hist[c])
                               /\ chain[c].st = "threw"
                               /\ chain[c].i + 1 = k
     /\ (pc = "settled" /\ RunsChains(req.chatMode) /\ chain[c].st = "threw") =>
           /\ result.chainResponses[c].chainData.steps = <<>>
           /\ result.chainResponses[c].responses = EmptyMap
           /\ result.chainResponses[c].finalResponse.id = "chain-error-"

\* a chain failed at its second step, its first step done, and the request
\* has settled
C21_Witness ==
  /\ pc = "settled"
  /\ \E c \in ChainIdx :
        /\ Len(hist[c]) = 2
        /\ StepFailed(c, 2)
        /\ Len(chain[c].steps) = 1

\* ------------------------------------------------- claims on the data store

AllSavesIdle == \A slot \in SaveSlots : saves[slot].pc = "idle"


\* the n last elements of a list (all of it when it is shorter)
LastN(list, n) ==
  SubSeq(list, IF Len(list) > n THEN Len(list) - n + 1 ELSE 1, Len(list))

\* C5: after any sequence of sequential saveComparisonData calls the stored
\* list holds at most MAX_ENTRIES entries and is exactly the
\* min(total, MAX_ENTRIES) most recently appended entries, newest first.
C5_BoundAndEvictionOrder ==
  (AllSavesIdle /\ ~overlapped) =>
    /\ Len(storage) <= MAX_ENTRIES
    /\ storage = Reverse(LastN(appended, MAX_ENTRIES))

\* C6: when two saveComparisonData calls overlap and both complete, no append
\* is lost: the store holds the entries appended, up to the bound, whose size
\* still holds.
C6_ConcurrentAppendsSerialized ==
  (AllSavesIdle /\ overlapped /\ ~readFailed) =>
    /\ Len(storage) <= MAX_ENTRIES
    /\ \A k \in 1 .. Len(LastN(appended, MAX_ENTRIES)) :
         \E j \in 1 .. Len(storage) : storage[j] = LastN(appended, MAX_ENTRIES)[k]

\* the positions of the store's entries that have a non-null selectedOption
SelectedPositions(data) ==
  {k \in 1 .. Len(data) : Field(data[k], "selectedOption") # <<>>}

\* the k-th smallest element of a set of positions
NthPosition(set, k) ==
  CHOOSE p \in set : Cardinality({q \in set : q <= p}) = k

\* record rec is the export of entry: its prompt, selection and timestamp,
\* and the wallet context projected to its three figures, or null
ProjectionOf(rec, entry) ==
  /\ rec.prompt = entry.question
  /\ rec.selected = entry.selectedOption
  /\ rec.timestamp = entry.timestamp
  /\ rec.chatMode = entry.chatMode
  /\ rec.responses = entry.responses
  /\ IF entry.walletData = <<>>
       THEN rec.context = <<>>
       ELSE /\ rec.context # <<>>
            /\ DOMAIN rec.context[1] = {"balance", "assets", "transactions"}
            /\ rec.context[1].balance = entry.walletData[1].balance
            /\ rec.context[1].assets = Len(entry.walletData[1].assets)
            /\ rec.context[1].transactions = Len(entry.walletData[1].transactions)

\* the records are one per selected entry of data, in its order
ExportsSelected(records, data) ==
  /\ Len(records) = Cardinality(SelectedPositions(data))
  /\ \A k \in 1 .. Len(records) :
       ProjectionOf(records[k], data[NthPosition(SelectedPositions(data), k)])

C7_WitnessFailedRead ==
  /\ exported # <<>>
  /\ ~exported[1].readOk
  /\ SelectedPositions(storage) # {}

SessionFields ==
  {"id", "timestamp", "question", "walletData", "chatMode", "chainConfig",
   "responses", "chainData", "chainResponses", "selectedOption"}

\* the setItem of the call in slot settles with success in this step
SaveSucceeds(slot) ==
  /\ saves[slot].pc = "writing"
  /\ saves'[slot].pc = "idle"
  /\ appended' # appended

\* C14 -- a save round-trips the session: after a successful save the newest
\* entry read back has the id, timestamp, question, wallet data, chat mode,
\* chain config, responses, chain data, chainResponses and selectedOption of
\* the session that was saved.
C14_SaveRoundTrip ==
  [][\A slot \in SaveSlots :
       SaveSucceeds(slot) =>
          /\ Len(storage') > 0
          /\ \A f \in SessionFields :
                Field(storage'[1], f) = saves[slot].session[1][f]]_vars

\* the setItem of the call in slot settles with a failure in this step
SaveFails(slot) ==
  /\ saves[slot].pc = "writing"
  /\ saves'[slot] # saves[slot]
  /\ appended' = appended

\* C16 -- a failed save is swallowed and leaves no trace: when the write
\* fails, saveComparisonData returns to its caller without throwing (the call
\* is over, in no failed state) and the stored list is what it was.
C16_FailedSaveLeavesNoTrace ==
  [][\A slot \in SaveSlots :
       SaveFails(slot) => /\ saves'[slot] = SaveIdle
                          /\ storage' = storage]_vars

\* two calls one after the other: the first is stored, the second has failed
\* and the first is still the newest entry
C16_Witness ==
  /\ AllSavesIdle
  /\ ~overlapped
  /\ nextId = 3
  /\ Len(storage) = 1
  /\ Field(storage[1], "id") = 1

\* the records of the list the aggregator can read
ValidRecords(data) == SelectSeq(data, LAMBDA entry : ~StatsThrowsOn(entry))

\* C17 -- a malformed stored entry is skipped by the aggregator: when the
\* store holds a corrupt record (one without a responses map) among valid
\* ones, getExtensibleStats returns the counts computed over the valid
\* records, not a failure and not all-zero statistics.
C17_CorruptEntrySkipped ==
  ( /\ stats # <<>>
    /\ stats[1].readOk
    /\ \E k \in 1 .. Len(storage) : StatsThrowsOn(storage[k])
    /\ \E k \in 1 .. Len(storage) : ~StatsThrowsOn(storage[k]) )
     => stats[1].value = ExtensibleStats(ValidRecords(storage))

\* the positions of the stored list that satisfy P
StoredWhere(P(_)) == {j \in 1 .. Len(storage) : P(storage[j])}

\* C22 -- win and participation counts: for every store content, a model's
\* wins are the entries that selected it in parallel or universal mode, a
\* chain's wins are the entries that selected chain_N in chain or universal
\* mode, and a model's totalSessions are the entries whose responses map has
\* the model as a key.
C22_WinAndParticipationCounts ==
  (stats # <<>> /\ stats[1].readOk) =>
     LET value == stats[1].value
     IN /\ Len(value.modelStats) = Len(ProviderOrder)
        /\ Len(value.chainStats) = Len(CHAIN_CONFIGS)
        /\ \A k \in 1 .. Len(ProviderOrder) :
              /\ value.modelStats[k].wins =
                   Cardinality(StoredWhere(LAMBDA entry :
                     /\ Field(entry, "selectedOption") = <<ProviderOrder[k]>>
                     /\ Field(entry, "chatMode") \in {"parallel", "universal"}))
              /\ value.modelStats[k].totalSessions =
                   Cardinality(StoredWhere(LAMBDA entry :
                     ProviderOrder[k] \in DOMAIN Field(entry, "responses")))
        /\ \A c \in ChainIdx :
              value.chainStats[c].wins =
                Cardinality(StoredWhere(LAMBDA entry :
                  /\ Field(entry, "selectedOption") = <<ChainId(c)>>
                  /\ Field(entry, "chatMode") \in {"chain", "universal"}))

\* the stored list after the step is the one before it with one entry put in
\* front and cut to MAX_ENTRIES: the entries retained are unchanged and in
\* order, and only the oldest are gone
AppendsInFront ==
  /\ Len(storage') > 0
  /\ SubSeq(storage', 2, Len(storage')) = Slice0(storage, MAX_ENTRIES - 1)

\* C26 -- stored entries are immutable history: a saveComparisonData call
\* leaves every previously stored entry that is retained unchanged and in the
\* same relative order, and entries disappear from the store only through
\* MAX_ENTRIES eviction of the oldest or through clearAllData, after which the
\* store is empty.
C26_ImmutableHistory ==
  [][storage' # storage =>
       \/ \E slot \in SaveSlots : SaveSucceeds(slot) /\ AppendsInFront
       \/ /\ \A slot \in SaveSlots : saves'[slot] = saves[slot]
          /\ storage' = <<>>]_vars

\* C27 -- a failed or unparsable store read during an append does not destroy
\* history: if the read of saveComparisonData fails while the following write
\* succeeds, the entries stored before the call are still in the store
\* afterwards, the new entry added to them.  With one call at a time: every
\* entry stored before a write that succeeds is still stored after it, but
\* for the eviction of the oldest by a full list.
C27_FailedReadKeepsHistory ==
  [][\A slot \in SaveSlots :
       (SaveSucceeds(slot) /\ ~overlapped) =>
          \A k \in 1 .. Len(storage) :
             k < MAX_ENTRIES => \E j \in 1 .. Len(storage') : storage'[j] = storage[k]]_vars

\* ------------------------------------------ claims on the analytics screen

OptionOrder == <<"openai", "gemini", "chain_0", "chain_1">>

\* the selections tallied in one bucket
BucketTotal(tally) ==
  LET F[k \in 0 .. Len(OptionOrder)] ==
        IF k = 0 THEN 0
        ELSE F[k - 1] + (IF OptionOrder[k] \in DOMAIN tally THEN tally[OptionOrder[k]] ELSE 0)
  IN F[Len(OptionOrder)]

\* the bucket the claim files a question under: security keywords first, then
\* technical ones, else general
BucketOf(entry) ==
  LET has(kw) == Includes(ToLowerCase(entry.question), kw)
  IN IF has("security") \/ has("safe") \/ has("risk") \/ has("hack") THEN "security"
     ELSE IF has("technical") \/ has("code") \/ has("develop") \/ has("smart contract")
       THEN "technical"
     ELSE "general"

\* C23 -- category breakdown: every entry with a selection is tallied in
\* exactly one of the buckets security / technical / general, security
\* keywords taking precedence over technical ones and general being the
\* default, so the tallies of the three buckets sum to the number of entries
\* with a non-null selectedOption.
C23_CategoryBreakdown ==
  comparison.pc = "loaded" =>
     /\ DOMAIN comparison.categoryAnalysis = {"security", "technical", "general"}
     /\ \A cat \in DOMAIN comparison.categoryAnalysis :
          \A opt \in DOMAIN comparison.categoryAnalysis[cat] :
             /\ opt \in {OptionOrder[k] : k \in 1 .. Len(OptionOrder)}
             /\ comparison.categoryAnalysis[cat][opt] =
                  Cardinality({k \in 1 .. Len(comparison.trainingData) :
                                 /\ comparison.trainingData[k].selectedOption = <<opt>>
                                 /\ BucketOf(comparison.trainingData[k]) = cat})
     /\ BucketTotal(comparison.categoryAnalysis["security"])
          + BucketTotal(comparison.categoryAnalysis["technical"])
          + BucketTotal(comparison.categoryAnalysis["general"])
          = comparison.totalSelections
     /\ comparison.totalSelections =
          Cardinality({k \in 1 .. Len(comparison.trainingData) :
                         comparison.trainingData[k].selectedOption # <<>>})

\* a loaded screen with a selection in each bucket, one of them under a
\* question that has a security and a technical keyword
C23_Witness ==
  /\ comparison.pc = "loaded"
  /\ comparison.totalSelections = 2
  /\ BucketTotal(comparison.categoryAnalysis["security"]) = 1
  /\ BucketTotal(comparison.categoryAnalysis["technical"]) = 1
  /\ \E k \in 1 .. Len(comparison.trainingData) :
        /\ Includes(ToLowerCase(comparison.trainingData[k].question), "code")
        /\ Includes(ToLowerCase(comparison.trainingData[k].question), "safe")

\* ------------------------------------------------ claims on the chat screen

\* no model is both available and enabled by the filter in effect
NoneEligible == \A m \in Models : ~(apiKey[m] /\ effectiveProviderSettings[m])

C12_VoiceModeOnlyOpenAI ==
  (send.pc = "awaiting" /\ send.voice) =>
     \A m \in Models \ {"openai"} : fetches[m] = 0

\* ------------------------------- claims on the selections the screen saves

\* the keys of the responses map and of the chainResponses map of a stored entry
OptionKeys(entry) ==
  (DOMAIN Field(entry, "responses"))
    \cup (IF Field(entry, "chainResponses") = <<>> THEN {}
          ELSE DOMAIN Field(entry, "chainResponses")[1])

\* C13 -- a stored selection names an option of its own entry: every stored
\* entry whose selectedOption is not null has it among the keys of its
\* responses map or of its chainResponses map.
C13_SelectionIsOwnOption ==
  \A k \in 1 .. Len(storage) :
     Field(storage[k], "selectedOption") # <<>> =>
        Field(storage[k], "selectedOption")[1] \in OptionKeys(storage[k])

\* C15 -- persisted is terminal: a comparison session is appended to the store
\* at most once; selecting again in the same session never produces a second
\* stored entry with the same session id.
C15_AppendedAtMostOnce ==
  \A j, k \in 1 .. Len(storage) :
     Field(storage[j], "id") = Field(storage[k], "id") => j = k

\* the record carries a chainResponses map / a map with an entry
HasChainResponses(e) == Field(e, "chainResponses") # <<>>

MergedInto(e) ==
  \/ DOMAIN Field(e, "responses") # {}
  \/ HasChainResponses(e) /\ DOMAIN Field(e, "chainResponses")[1] # {}

\* the session carries what its mode calls for
LifecycleShape(e) ==
  /\ MergedInto(e)
  /\ Field(e, "chatMode") = "parallel" => ~HasChainResponses(e)
  /\ Field(e, "chatMode") \in {"chain", "universal"} => HasChainResponses(e)

\* C24 -- session lifecycle order: a selection is accepted, and the session
\* persisted, only after the request's results have been merged into it: no
\* stored entry has both its responses map and its chainResponses map empty;
\* a parallel-mode entry carries only the responses map, a chain or universal
\* entry also carries chainResponses.
C24_SessionLifecycleOrder ==
  \A k \in 1 .. Len(storage) : LifecycleShape(storage[k])

\* C25 -- nothing is stored without a selection: submitting questions and
\* receiving responses leaves the store unchanged; an entry is created only
\* by an explicit selection of the user, so every stored entry has a non-null
\* selectedOption.  The store changes only in the step where the write of a
\* save succeeds, a save begins only with the selection just made written
\* into the session, and every stored entry has a selection.
C25_NothingStoredWithoutSelection ==
  [][/\ storage' # storage => \E slot \in SaveSlots : SaveSucceeds(slot)
     /\ \A slot \in SaveSlots :
          (saves[slot].pc = "idle" /\ saves'[slot].pc = "reading") =>
             LET session == saves'[slot].session[1]
             IN /\ session.selectedOption # <<>>
                /\ session.id \in DOMAIN selectedResponses'
                /\ selectedResponses'[session.id] = session.selectedOption[1]
     /\ \A k \in 1 .. Len(storage') :
          Field(storage'[k], "selectedOption") # <<>>]_vars

\* a request has been answered and nothing is stored; then a selection is
\* stored
C25_WitnessAnswered ==
  /\ send.pc = "idle"
  /\ currentSession # <<>>
  /\ DOMAIN selectedResponses = {}
  /\ storage = <<>>
  /\ \E k \in 1 .. Len(messages) : SelectionShown(k)

C25_Witness ==
  /\ Len(storage) = 1
  /\ Field(storage[1], "selectedOption") # <<>>
  /\ currentSession # <<>>
  /\ Field(storage[1], "id") = currentSession[1].id

\* ------------------------------------------- claims on the requests in flight

\* C28: at most one request is in flight on the chat screen: no second call of
\* handleSendMessageWithText gets to its processAIRequest while one is awaited,
\* and every loading placeholder on screen belongs to the request that is
\* awaited, the one the current session was made for
C28_AtMostOneRequestInFlight ==
  /\ Cardinality(calls) <= 1
  /\ \A k \in 1 .. Len(messages) :
       messages[k].isLoading =>
         /\ currentSession # <<>>
         /\ messages[k].sessionId = <<currentSession[1].id>>
         /\ \E call \in calls : call.sessionId = currentSession[1].id

LastEnabled(provider) ==
  /\ aiProviderSettings[provider]
  /\ \A m \in Models \ {provider} : ~aiProviderSettings[m]

\* C30: from the initial settings on, after any toggleAIProvider calls at least
\* one provider is switched on in the user settings, and a toggle of the only
\* provider switched on leaves the settings as they are
C30_AtLeastOneProviderEnabled ==
  /\ [](\E m \in Models : aiProviderSettings[m])
  /\ [][\A provider \in Models :
          (LastEnabled(provider) /\ toggleAIProvider(provider))
            => aiProviderSettings' = aiProviderSettings]_vars

\* toggles have left one provider switched on
C30_Witness == \E provider \in Models : LastEnabled(provider)

=============================================================================
